---- MODULE Spec2Model ----
(***************************************************************************)
(* Verification model of nestjs-typeorm-transactions.                      *)
(*                                                                         *)
(* Part 1: the transactional wrapper (@Transactional / transaction()),     *)
(*         the AsyncLocalStorage binding and the accessor lookup of        *)
(*         TransactionalRepository.                                        *)
(* Part 2: CacheStorage (get / set over an in-memory TTL cache).           *)
(*                                                                         *)
(* Every `await` of the source is a suspension point: the steps of         *)
(* different call chains interleave between two awaits, never inside one.  *)
(***************************************************************************)
EXTENDS Integers, Sequences, FiniteSets, TLC

\* ------------------------------------------------------------------ bounds
\* Wrapper invocations on record at one time: those in flight in any chain
\* and the finished ones of each chain's current request.
MaxInv == 2

\* Rows of the table read by findWithPagination; its limit and page arguments.
MaxRows == 4
MaxLimit == 3
MaxPage == 3

\* Relations declared by the entity that associate / disassociate is called on.
MaxRelations == 2

\* Clock ticks (milliseconds) in one run.
MaxTime == 3
\* CacheStorage.get calls on one key between two sets of that key.
MaxGets == 2

\* ------------------------------------------------------- program constants
DEFAULT_DATASOURCE_NAME == "default"
\* CacheStorage.DEFAULT_TTL, in milliseconds.
DEFAULT_TTL == 100000

\* ------------------------------------------------------------- input sets
\* Asynchronous call chains (e.g. two HTTP requests on one event loop).
Chains == {"c1", "c2"}
\* Connection names: the reserved default name and a second, named one.
Names == {DEFAULT_DATASOURCE_NAME, "other"}
\* Values a unit of work may return, errors it may throw.
Values == {"v1"}
BodyErrors == {"E1"}
\* Cache keys, cached payloads, and the options of CacheStorage.set:
\* once is true, false or absent; ttl is a number of milliseconds or absent.
\* The keys are those findOneByPK builds: `${entityName}-${id}`, with
\* entityName = EntityClass.name (a class) or EntityClass.options.name (a
\* schema), for the primary keys PkIds.
EntityName == "User"
PkIds == {1}
CacheKey(id) == EntityName \o "-" \o ToString(id)
Keys == {CacheKey(id) : id \in PkIds}
CacheValues == {"a", "b"}
OnceOptions == {"true", "false", "undefined"}
NoTtl == -1
TtlOptions == {1, 2, NoTtl}
\* An invocation is named by its chain and its rank in the chain's request.
InvIds == Chains \X (1..MaxInv)
NoInv == <<"undefined", 0>>

\* JavaScript's undefined, for handles, names and error slots.
None == "undefined"

\* Executors (EntityManager objects): the manager of a query runner
\* (queryRunner.manager), the manager of a data source (dataSource.manager,
\* queries outside any transaction), or no executor (a missing store key).
QrManager(i) == [kind |-> "qr", qr |-> i, ds |-> "undefined"]
DsManager(h) == [kind |-> "ds", qr |-> NoInv, ds |-> h]
NoExec == [kind |-> "none", qr |-> NoInv, ds |-> "undefined"]

\* An IAsyncLocalStore object, or undefined (defined = FALSE).
NoStore == [defined |-> FALSE, map |-> [n \in Names |-> NoExec]]

\* Completions of an async call: nothing yet, a returned value, a thrown error.
NoOutcome == [kind |-> "none", val |-> None]
Ret(v) == [kind |-> "ret", val |-> v]
Thr(e) == [kind |-> "thr", val |-> e]

\* Errors raised by the data-access engine and by the registry.
ConnectErr == "ConnectErr"
StartErr == "StartErr"
CommitErr == "CommitErr"
RollbackErr == "RollbackErr"
UnknownConnectionException == "UnknownConnectionException"

VARIABLES
  dataSourceStore,  \* DataSourceStorage.dataSourceStore: name -> handle | None
  inv,              \* wrapper invocations: id -> record (see IdleInv)
  stack,            \* per chain: invocations in flight (innermost last)
  alsStore,         \* per chain: the store AsyncLocalStorage holds for it
  pending,          \* per query runner: writes issued in its open transaction
  committed         \* writes that are durable in the database

VARIABLES
  cache,            \* the memory store behind CacheStorage: key -> entry
  now,              \* the clock, in milliseconds
  cget,             \* per chain: the CacheStorage.get call in flight, if any
  lastSet,          \* per key: the entry written by the latest set
  getLog,           \* per key: what the gets begun since that set returned
  clean             \* per key: no two calls on the key have overlapped since

VARIABLES
  dsCall            \* the latest DataSourceStorage.getDataSource call

txVars == <<dataSourceStore, inv, stack, alsStore, pending, committed>>
cacheVars == <<cache, now, cget, lastSet, getLog, clean>>
VARIABLES
  table,            \* ids of the rows that match the find options
  pg                \* the findWithPagination call (see NoPage)

VARIABLES
  rel               \* the associate / disassociate call (see NoRel)

VARIABLES
  pk,               \* per chain: the findOneByPK / EntityExistsPipe call in
                    \* flight (see NoPk)
  lastPk,           \* the call that finished latest, until another begins
  follow            \* per key: the lookups that followed a validation

VARIABLES
  NODE_ENV,         \* process.env.NODE_ENV
  descriptor,       \* per connection name: the method decorated with
                    \* @Transactional(name) (see Undecorated)
  repositories,     \* per connection name: `dataSource` of the
                    \* TransactionalRepository the provider factory built
  forRootCall       \* the latest forRoot call (see NoForRoot)

regVars == <<dsCall>>
pageVars == <<table, pg>>
relVars == <<rel>>
pkVars == <<pk, lastPk, follow>>
VARIABLES
  sv                \* the latest TransactionalRepository.save call (see NoSave)

envVars == <<NODE_ENV, descriptor>>
appVars == <<envVars, repositories, forRootCall>>
VARIABLES
  timers,           \* per invocation: the store captured by the callback its
                    \* unit of work scheduled and did not await (NoStore: none)
  late              \* the latest run of such a callback (see NoLate)

VARIABLES
  ic                \* the TransactionInterceptor.intercept call (see NoIntercept)

saveVars == <<sv>>
timerVars == <<timers, late>>
interceptVars == <<ic>>
repoVars ==
  <<regVars, pageVars, relVars, pkVars, appVars, saveVars, timerVars,
    interceptVars>>
vars == <<txVars, cacheVars, repoVars>>

----------------------------------------------------------------------------
\* An invocation record. The invocation's query runner has the same id.
\*   chain, conn, parent : who called the wrapper, for which connection;
\*            parent is the invocation whose unit of work made the call
\*            (NoInv: a top-level call)
\*   pc     : position in the wrapper's code
\*   ops    : calls made on this invocation's query runner, in order,
\*            each [op, ok]
\*   work   : how the unit of work ended
\*   caught : the `error` bound by the catch block
\*   res    : completion of the try/catch, delivered once finally has run
\*   out    : what the caller of the wrapper observed
\*   saved  : the store that was current when als.run() was entered
\*   wrote  : the accessor name the unit of work wrote through (None: no write)
\*   via    : what was called: "Transactional" (the function the decorator
\*            put in descriptor.value), "original" (the method itself, left
\*            in descriptor.value) or "transaction" (transaction(cb))
\*   env    : process.env.NODE_ENV when the call was made
IdleInv ==
  [chain |-> None, conn |-> None, parent |-> NoInv, pc |-> "idle", ops |-> <<>>,
   work |-> NoOutcome, caught |-> None, res |-> NoOutcome, out |-> NoOutcome,
   saved |-> NoStore, wrote |-> None, via |-> None, env |-> None]

Op(name, ok) == [op |-> name, ok |-> ok]

\* An entry of the memory store: the wrapper { value, once } that
\* CacheStorage.set stores, with the time it was stored and its ttl.
NoEntry ==
  [present |-> FALSE, value |-> None, once |-> None, start |-> 0, ttl |-> 0]
\* A chain's CacheStorage.get call: idle, or past `await cache.get(key)`
\* holding the wrapper it read. fresh: the read happened no later than the
\* expiry time of the entry of the latest set; cur: no set of the key has
\* happened since the read.
NoCall ==
  [pc |-> "idle", key |-> None, wrapper |-> NoEntry, fresh |-> FALSE,
   cur |-> FALSE]

Depth(c) == Len(stack[c])
Top(c) == stack[c][Len(stack[c])]
Pop(c) == [stack EXCEPT ![c] = SubSeq(stack[c], 1, Len(stack[c]) - 1)]
Running(c) == Depth(c) > 0 /\ inv[Top(c)].pc = "run"
At(c, pc) == Depth(c) > 0 /\ inv[Top(c)].pc = pc

\* A getDataSource call: the name it looked up, what the registry held under
\* that name, the completion, and the message of the error thrown.
NoDsCall ==
  [called |-> FALSE, name |-> None, held |-> None, out |-> NoOutcome,
   message |-> None]

\* A findWithPagination call: its arguments, the rows that matched when it
\* began, whether the matching rows changed while it ran, the rows of its
\* first query, and the IPagination object it returned.
NoPageResult ==
  [count |-> 0, pageCount |-> 0, currentPage |-> 0, limit |-> 0, data |-> <<>>]
NoPage ==
  [pc |-> "idle", limit |-> 0, page |-> 0, seen |-> {}, changed |-> FALSE,
   data |-> <<>>, result |-> NoPageResult]

\* An associate / disassociate call: which of the two, the entity's
\* metadata.relations, the `relation` argument, the index of the relation the
\* for loop examines next, `found`, the add / remove calls executed on the
\* relation so far, and the completion.
NoRel ==
  [pc |-> "idle", method |-> None, relations |-> <<>>, relation |-> None,
   idx |-> 0, found |-> FALSE, mutations |-> <<>>, out |-> NoOutcome]

\* A findOneByPK call, made directly or by EntityExistsPipe.transform:
\*   pipe     : the call is transform(value); defaults: the pipe was built
\*              without cacheOptions
\*   id       : the primary key looked up (the pipe's value)
\*   given, once, ttl : whether findOneByPK got cacheOptions, and their fields
\*   key      : the cache key used
\*   cached   : the value the cache held under the key when the call read it
\*   entity   : the local `entity`
\*   hit      : CacheStorage.get returned an entity
\*   queries  : database queries sent by the call
\*   rowAtQuery : the query found a row
\*   stored   : the entry the call stored in the cache
\*   overlap  : another lookup of the key was in flight during the call
\*   rowNever, rowAlways : during the whole call no row / a row had the key
\*   out      : the completion
NoPk ==
  [pc |-> "idle", pipe |-> FALSE, defaults |-> FALSE, id |-> 0,
   given |-> FALSE, once |-> None, ttl |-> NoTtl, key |-> None,
   cached |-> None, entity |-> None, hit |-> FALSE, queries |-> 0, rowAtQuery |-> FALSE,
   stored |-> NoEntry, overlap |-> FALSE, rowNever |-> FALSE,
   rowAlways |-> FALSE, out |-> NoOutcome]

\* What followed the latest transform(value) of a pipe built without
\* cacheOptions that returned value, as long as no two lookups of the key
\* overlapped: stage 1 after that validation (validationQueries: the queries
\* it sent), 2 after the next findOneByPK (nextQueries: the queries that one
\* sent), 3 after the findOneByPK after that (thenQueries); 0: no such
\* validation, or the sequence was broken by an overlap or by another pipe.
NoFollow ==
  [stage |-> 0, validationQueries |-> 0, nextQueries |-> 0, thenQueries |-> 0]

\* Values of process.env.NODE_ENV; None: the variable is not set.
EnvValues == {"production", "test", "TEST"}

\* Faulty variant: the comparison is made on the value as it is.
ToUpperCase_identity(s) == s

\* String.prototype.toUpperCase on the values of NODE_ENV (decorators.ts 25).
ToUpperCase(s) ==
  CASE s = "production" -> "PRODUCTION"
    [] s = "test" -> "TEST"
    [] s = "TEST" -> "TEST"

\* The method a class declares with @Transactional(name):
\*   value : descriptor.value once the decorator has run: "original" (the
\*           method as written) or "wrapper" (the function of lines 26-48);
\*           "undecorated" before the class is defined, "TypeError" when the
\*           decorator threw
\*   env   : process.env.NODE_ENV when the decorator ran
Undecorated == [value |-> "undecorated", env |-> None]

\* Transactional(connection)(target, propertyKey, descriptor), lines 22-52,
\* run while NODE_ENV is env: descriptor.value is replaced unless the
\* upper-cased NODE_ENV is TEST; undefined.toUpperCase() is a TypeError.
Transactional(env) ==
  IF env = None
    THEN [value |-> "TypeError", env |-> env]
    ELSE IF ToUpperCase(env) # "TEST"
           THEN [value |-> "wrapper", env |-> env]
           ELSE [value |-> "original", env |-> env]

\* A forRoot call: options.name (None: not given), the data source it
\* initialized, and the registry as it was when the call was made.
NoForRoot ==
  [called |-> FALSE, optionsName |-> None, dataSource |-> None,
   before |-> [n \in Names |-> None]]

\* SaveOptions as save() uses them: absent, or an object with its
\* `transaction` and `reload` fields ("undefined": the field is not set).
AbsentSaveOptions == [given |-> FALSE, transaction |-> None, reload |-> None]
SaveOptionsInputs ==
  {AbsentSaveOptions} \cup
  [given : {TRUE}, transaction : {"true", "false", None}, reload : {"true", None}]

\* A save call: whether `entity` was an array, the saveOptions it was given,
\* the options and the manager the underlying save got, and whether the
\* underlying save opens a transaction of its own.
NoSave ==
  [called |-> FALSE, array |-> FALSE, given |-> AbsentSaveOptions,
   passed |-> AbsentSaveOptions, manager |-> NoExec, ownTransaction |-> FALSE]

\* A run of a callback that a unit of work scheduled without awaiting it:
\* the invocation that scheduled it, the manager its accessor resolved to,
\* and the calls made until then on the query runner owning that manager.
NoLate == [ran |-> FALSE, by |-> NoInv, manager |-> NoExec, ops |-> <<>>]

\* An intercept(context, next) call and the stream it returned:
\*   pc       : where the call and its stream stand
\*   metadata : the handler or its class carries TRANSACTIONAL_KEY
\*   handler  : the kind of handler, the value it emits and the error it
\*              fails with (see Handlers)
\*   source   : what next.handle() has still to emit
\*   waiting  : values concatMap holds back while a commit is pending
\*   caught   : the error catchError was handed
\*   events   : in order, the calls invoked on the query runner ("connect",
\*              ...), their settling (":ok", ":failed"), the start of the
\*              handler and what it emitted
\*   out      : what the subscriber of the returned stream received
NoIntercept ==
  [pc |-> "idle", metadata |-> FALSE, handler |-> None, value |-> None,
   error |-> None, source |-> <<>>,
   waiting |-> 0, caught |-> None, events |-> <<>>, out |-> <<>>]

\* Everything but the registry and the environment once the module is loaded.
InitRest ==
  /\ inv = [i \in InvIds |-> IdleInv]
  /\ stack = [c \in Chains |-> <<>>]
  /\ alsStore = [c \in Chains |-> NoStore]
  /\ pending = [i \in InvIds |-> {}]
  /\ committed = {}
  /\ cache = [k \in Keys |-> NoEntry]
  /\ now = 0
  /\ cget = [c \in Chains |-> NoCall]
  /\ lastSet = [k \in Keys |-> NoEntry]
  /\ getLog = [k \in Keys |-> <<>>]
  /\ clean = [k \in Keys |-> TRUE]
  /\ dsCall = NoDsCall
  /\ table = {}
  /\ pg = NoPage
  /\ rel = NoRel
  /\ pk = [c \in Chains |-> NoPk]
  /\ lastPk = NoPk
  /\ follow = [k \in Keys |-> NoFollow]
  /\ forRootCall = NoForRoot
  /\ sv = NoSave
  /\ timers = [i \in InvIds |-> NoStore]
  /\ late = NoLate
  /\ ic = NoIntercept

\* The process runs outside test mode and the classes were defined in it:
\* every @Transactional method is the wrapping function.
InitApp ==
  /\ NODE_ENV = "production"
  /\ descriptor = [n \in Names |-> Transactional("production")]

\* The application has run forRoot for every connection name it uses, and
\* the repository providers were built from those data sources.
Init ==
  /\ dataSourceStore = [n \in Names |-> n]
  /\ repositories = [n \in Names |-> n]
  /\ InitApp
  /\ InitRest

----------------------------------------------------------------------------
\* A parameter with the default value DEFAULT_DATASOURCE_NAME.
NameOrDefault(name) == IF name = None THEN DEFAULT_DATASOURCE_NAME ELSE name

\* Older variant of DataSourceStorage.getDataSource (part_006 74-76): the
\* map's answer is returned as it is, undefined for a missing name.
getDataSource_noThrow(name) == Ret(dataSourceStore[name])

\* DataSourceStorage.getDataSource: the registered handle, or a throw.
getDataSource(name) ==
  IF dataSourceStore[name] = None
    THEN Thr(UnknownConnectionException)
    ELSE Ret(dataSourceStore[name])

\* Faulty variant: the store is kept in one module-level slot instead of
\* AsyncLocalStorage, so every chain reads whichever store is set.
getStore_shared(c) ==
  LET set == {d \in Chains : alsStore[d].defined}
  IN  IF set = {} THEN NoStore ELSE alsStore[CHOOSE d \in set : TRUE]

\* asyncLocalStorage.getStore() evaluated in chain c.
getStore(c) == alsStore[c]

\* The lookup shared by getTypeOrmRepository, getEntityManager and
\* executeRawQuery: `als.getStore() && als.getStore()[connection]`.
Bound(c, connection) ==
  getStore(c).defined /\ getStore(c).map[connection] # NoExec

\* Faulty variant: the lookup ignores the accessor's connection name and
\* takes whichever executor the store holds.
getTypeOrmRepository_anyName(c, connection) ==
  LET held == {n \in Names : Bound(c, n)}
  IN  IF held # {}
        THEN getStore(c).map[CHOOSE n \in held : TRUE]
        ELSE DsManager(repositories[connection])

\* TransactionalRepository.getTypeOrmRepository of an accessor bound to
\* `connection`: the executor the repository it returns runs on. Outside a
\* scope that is this.dataSource.manager, the data source the provider
\* factory passed to the constructor.
getTypeOrmRepository(c, connection) ==
  IF Bound(c, connection)
    THEN getStore(c).map[connection]
    ELSE DsManager(repositories[connection])

\* TransactionalRepository.getEntityManager(connection).
getEntityManager(c, connection) ==
  IF Bound(c, connection)
    THEN getStore(c).map[connection]
    ELSE DsManager(getDataSource(connection).val)

\* The manager TransactionalRepository.executeRawQuery({connection}) runs
\* the query on; connection may be omitted.
executeRawQuery(c, connection) ==
  LET n == NameOrDefault(connection)
  IN  IF Bound(c, n)
        THEN getStore(c).map[n]
        ELSE DsManager(getDataSource(n).val)

\* The store the wrapper binds: { [connection]: queryRunner.manager }.
NewStore(connection, i) ==
  [defined |-> TRUE,
   map |-> [n \in Names |-> IF n = connection THEN QrManager(i) ELSE NoExec]]

----------------------------------------------------------------------------
\* The wrapper: Transactional (decorators.ts 26-48); transaction()
\* (part_001 13-33) is the same statement sequence around cb().
\* The methods explored were decorated with NODE_ENV other than TEST, so
\* descriptor.value is the wrapping function (decorators.ts 25-26).
\* connect, startTransaction, commitTransaction and rollbackTransaction may
\* each resolve or reject; release() hands the connection back and resolves.

\* Faulty variant: the try block ends without `return result`.
TryCompletion_noReturn(commitOk, result) ==
  IF commitOk THEN Ret(None) ELSE Thr(CommitErr)

\* try block, lines 37-41: once the unit of work has returned `result`,
\* commit; `return result` if commit resolved, else its error reaches catch.
TryCompletion(commitOk, result) ==
  IF commitOk THEN Ret(result) ELSE Thr(CommitErr)

\* Faulty variant: the catch block throws a wrapping error instead of `error`.
CatchCompletion_wrapped(rollbackOk, error) ==
  IF rollbackOk THEN Thr("TransactionError") ELSE Thr(RollbackErr)

\* catch block, lines 42-44: `await rollbackTransaction(); throw error`.
\* A rejected rollback replaces `error` as the completion.
CatchCompletion(rollbackOk, error) ==
  IF rollbackOk THEN Thr(error) ELSE Thr(RollbackErr)

\* Faulty variant: release() is the last statement of the catch block instead
\* of a finally block, so a rejected rollback skips it.
PcAfterCatch_noFinally(rollbackOk) == IF rollbackOk THEN "release" ELSE "done"

\* Where the wrapper goes after the catch block: finally (line 45-47) runs
\* release whether or not the catch block itself threw.
PcAfterCatch(rollbackOk) == "release"

\* Faulty variant: rollbackTransaction() sits in the finally block, so it
\* also runs after a commit that resolved.
PcAfterCommit_alwaysRollback(commitOk) == "rollback"

\* Where the wrapper goes after commit: to finally on success, into the catch
\* block when commit threw (the commit is inside the try).
PcAfterCommit(commitOk) == IF commitOk THEN "release" ELSE "rollback"

\* Records kept when chain c makes a call: a chain that is back at top level
\* starts a new request, and the records (and write tags) of its previous
\* request are forgotten, which frees their ids.
Kept(c) ==
  IF Depth(c) = 0
    THEN [i \in InvIds |-> IF i[1] = c THEN IdleInv ELSE inv[i]]
    ELSE inv

Forgotten(c) == {i \in InvIds : inv[i].pc # "idle" /\ Kept(c)[i].pc = "idle"}

OnRecord(c) == {i \in InvIds : Kept(c)[i].pc # "idle"}

\* The id of chain c's next invocation: its rank in the request.
NextId(c) == <<c, 1 + Cardinality({i \in OnRecord(c) : i[1] = c})>>

\* Faulty variant: a rejected connect() or startTransaction() is swallowed.
BeginCompletion_swallowed(error) == Ret(None)

\* Lines 29-30 (transaction(): 15-16) are outside the try: a rejection there
\* is the completion of the async function.
BeginCompletion(error) == Thr(error)

\* Faulty variant: the store is set with enterWith(), which stays in force
\* after the unit of work has ended.
ExitStore_kept(c, i) == alsStore[c]

\* Line 37: asyncLocalStorage.run(store, callback) puts back the store that
\* was current when it was entered, however the callback ends.
ExitStore(c, i) == inv[i].saved

\* Lines 26-29 (transaction(): 13-15). The wrapping function is called in
\* chain c for `connection`, at top level or from a running unit of work:
\* getDataSource(connection).createQueryRunner(), then connect() is awaited.
\* No check of the current store is made. An unregistered name throws
\* before a runner exists.
Wrapper(c, connection, via) ==
  /\ Cardinality(OnRecord(c)) < MaxInv
  /\ Depth(c) = 0 \/ Running(c)
  /\ LET i == NextId(c)
         p == IF Depth(c) = 0 THEN NoInv ELSE Top(c)
         ds == getDataSource(connection)
         rec == [IdleInv EXCEPT !.chain = c, !.conn = connection, !.parent = p,
                                !.via = via, !.env = NODE_ENV]
     IN  IF ds.kind = "thr"
           THEN /\ inv' = [Kept(c) EXCEPT ![i] = [rec EXCEPT !.pc = "done", !.out = ds]]
                /\ stack' = stack
           ELSE /\ inv' = [Kept(c) EXCEPT ![i] = [rec EXCEPT !.pc = "connect"]]
                /\ stack' = [stack EXCEPT ![c] = Append(stack[c], i)]
  /\ committed' = committed \ Forgotten(c)
  /\ UNCHANGED <<cacheVars, repoVars>>
  /\ UNCHANGED <<dataSourceStore, alsStore, pending>>

\* A call of the method decorated with @Transactional(connection) whose
\* descriptor.value is the wrapping function.
Invoke(c, connection) ==
  /\ descriptor[connection].value = "wrapper"
  /\ Wrapper(c, connection, "Transactional")

\* transaction(cb, connection), part_001 9-34: the same statements around
\* cb(), with no look at NODE_ENV.
Transaction(c, connection) == Wrapper(c, connection, "transaction")

\* A call of the method decorated with @Transactional(connection) whose
\* descriptor.value was left as it was (decorators.ts 23-25, 51): the body
\* runs at once, in the store of the caller.
InvokeOriginal(c, connection) ==
  /\ descriptor[connection].value = "original"
  /\ Cardinality(OnRecord(c)) < MaxInv
  /\ Depth(c) = 0 \/ Running(c)
  /\ LET i == NextId(c)
         p == IF Depth(c) = 0 THEN NoInv ELSE Top(c)
     IN  /\ inv' = [Kept(c) EXCEPT ![i] =
                      [IdleInv EXCEPT !.chain = c, !.conn = connection,
                                      !.parent = p, !.via = "original",
                                      !.env = NODE_ENV, !.pc = "original"]]
         /\ stack' = [stack EXCEPT ![c] = Append(stack[c], i)]
  /\ committed' = committed \ Forgotten(c)
  /\ UNCHANGED <<cacheVars, repoVars>>
  /\ UNCHANGED <<dataSourceStore, alsStore, pending>>

\* The body of a method called as it was written ends: its completion is
\* the caller's.
OriginalEnd(c, completion) ==
  /\ At(c, "original")
  /\ inv' = [inv EXCEPT ![Top(c)] =
               [@ EXCEPT !.work = completion, !.out = completion, !.pc = "done"]]
  /\ stack' = Pop(c)
  /\ UNCHANGED <<cacheVars, repoVars>>
  /\ UNCHANGED <<dataSourceStore, alsStore, pending, committed>>

OriginalReturn(c, v) == OriginalEnd(c, Ret(v))

OriginalThrow(c, e) == OriginalEnd(c, Thr(e))

\* process.env.NODE_ENV is assigned (or deleted: None), by the test setup
\* or the launcher, while no request is in flight.
SetEnv(value) ==
  /\ \A c \in Chains : Depth(c) = 0
  /\ NODE_ENV' = value
  /\ UNCHANGED <<txVars, cacheVars, regVars, pageVars, relVars, pkVars, saveVars, interceptVars, timerVars>>
  /\ UNCHANGED <<descriptor, repositories, forRootCall>>

\* The class that declares the method decorated with
\* @Transactional(connection) is defined: the decorator runs, once.
Decorate(connection) ==
  /\ descriptor[connection] = Undecorated
  /\ descriptor' = [descriptor EXCEPT ![connection] = Transactional(NODE_ENV)]
  /\ UNCHANGED <<txVars, cacheVars, regVars, pageVars, relVars, pkVars, saveVars, interceptVars, timerVars>>
  /\ UNCHANGED <<NODE_ENV, repositories, forRootCall>>

\* Line 29: connect() settles. A rejection leaves the async function at once
\* (the call is outside the try).
Connect(c, ok) ==
  /\ At(c, "connect")
  /\ LET i == Top(c)
         r == [inv[i] EXCEPT !.ops = Append(@, Op("connect", ok))]
     IN  IF ok
           THEN /\ inv' = [inv EXCEPT ![i] = [r EXCEPT !.pc = "start"]]
                /\ stack' = stack
           ELSE /\ inv' = [inv EXCEPT ![i] =
                             [r EXCEPT !.pc = "done",
                                       !.out = BeginCompletion(ConnectErr)]]
                /\ stack' = Pop(c)
  /\ UNCHANGED <<cacheVars, repoVars>>
  /\ UNCHANGED <<dataSourceStore, alsStore, pending, committed>>

\* Lines 30-38: startTransaction() settles; on success the store is built and
\* asyncLocalStorage.run(store, ...) enters the unit of work. The store passed
\* to run() replaces the chain's current store for the callback's extent.
StartTransaction(c, ok) ==
  /\ At(c, "start")
  /\ LET i == Top(c)
         r == [inv[i] EXCEPT !.ops = Append(@, Op("startTransaction", ok))]
     IN  IF ok
           THEN /\ inv' = [inv EXCEPT ![i] =
                             [r EXCEPT !.pc = "run", !.saved = alsStore[c]]]
                /\ alsStore' = [alsStore EXCEPT ![c] = NewStore(inv[i].conn, i)]
                /\ stack' = stack
           ELSE /\ inv' = [inv EXCEPT ![i] =
                             [r EXCEPT !.pc = "done",
                                       !.out = BeginCompletion(StartErr)]]
                /\ alsStore' = alsStore
                /\ stack' = Pop(c)
  /\ UNCHANGED <<cacheVars, repoVars>>
  /\ UNCHANGED <<dataSourceStore, pending, committed>>

\* The unit of work writes through an accessor bound to `connection`
\* (create / save / update ...: getTypeOrmRepository().insert(...)). A write on
\* a query runner's manager joins its open transaction; a write on a data
\* source's manager is committed on its own.
BodyWrite(c, connection) ==
  /\ Running(c)
  /\ inv[Top(c)].wrote = None
  /\ LET i == Top(c)
         m == getTypeOrmRepository(c, connection)
     IN  /\ inv' = [inv EXCEPT ![i].wrote = connection]
         /\ IF m.kind = "qr"
              THEN /\ pending' = [pending EXCEPT ![m.qr] = @ \cup {i}]
                   /\ committed' = committed
              ELSE /\ pending' = pending
                   /\ committed' = committed \cup {i}
  /\ UNCHANGED <<cacheVars, repoVars>>
  /\ UNCHANGED <<dataSourceStore, stack, alsStore>>

\* The units of work explored here write through the accessor bound to
\* their own wrapper's connection name, at most once each.
BodyWriteOwn(c) ==
  /\ Running(c)
  /\ BodyWrite(c, inv[Top(c)].conn)

\* Lines 37-40: the unit of work returns v: run() restores the previous
\* store and commitTransaction() is called.
BodyReturn(c, v) ==
  /\ Running(c)
  /\ LET i == Top(c)
     IN  /\ inv' = [inv EXCEPT ![i] = [@ EXCEPT !.work = Ret(v), !.pc = "commit"]]
         /\ alsStore' = [alsStore EXCEPT ![c] = ExitStore(c, i)]
  /\ UNCHANGED <<cacheVars, repoVars>>
  /\ UNCHANGED <<dataSourceStore, stack, pending, committed>>

\* Lines 37-43: the unit of work throws e: run() restores the previous store,
\* the catch block binds e and calls rollbackTransaction().
BodyThrow(c, e) ==
  /\ Running(c)
  /\ LET i == Top(c)
     IN  /\ inv' = [inv EXCEPT ![i] =
                      [@ EXCEPT !.work = Thr(e), !.caught = e, !.pc = "rollback"]]
         /\ alsStore' = [alsStore EXCEPT ![c] = ExitStore(c, i)]
  /\ UNCHANGED <<cacheVars, repoVars>>
  /\ UNCHANGED <<dataSourceStore, stack, pending, committed>>

\* Lines 40-43: commitTransaction() settles. On success the transaction's
\* writes become durable and `return result` completes the try; on failure
\* the catch block binds the commit error and calls rollbackTransaction().
Commit(c, ok) ==
  /\ At(c, "commit")
  /\ LET i == Top(c)
         done == TryCompletion(ok, inv[i].work.val)
     IN  /\ inv' = [inv EXCEPT ![i] =
                      [@ EXCEPT !.ops = Append(@, Op("commitTransaction", ok)),
                                !.res = IF done.kind = "ret" THEN done ELSE NoOutcome,
                                !.caught = IF done.kind = "thr" THEN done.val ELSE None,
                                !.pc = PcAfterCommit(ok)]]
         /\ committed' = IF ok THEN committed \cup pending[i] ELSE committed
         /\ pending' = IF ok THEN [pending EXCEPT ![i] = {}] ELSE pending
  /\ UNCHANGED <<cacheVars, repoVars>>
  /\ UNCHANGED <<dataSourceStore, stack, alsStore>>

\* Lines 43-45: rollbackTransaction() settles; `throw error` if it resolved.
Rollback(c, ok) ==
  /\ At(c, "rollback")
  /\ LET i == Top(c)
     IN  /\ inv' = [inv EXCEPT ![i] =
                      [@ EXCEPT !.ops = Append(@, Op("rollbackTransaction", ok)),
                                !.res = CatchCompletion(ok, inv[i].caught),
                                !.pc = PcAfterCatch(ok)]]
         /\ pending' = IF ok THEN [pending EXCEPT ![i] = {}] ELSE pending
  /\ UNCHANGED <<cacheVars, repoVars>>
  /\ UNCHANGED <<dataSourceStore, stack, alsStore, committed>>

\* Lines 45-48: finally: release() settles, then the completion of the
\* try/catch reaches the caller. The connection goes back to the pool, an
\* open transaction on it is gone.
Release(c) ==
  /\ At(c, "release")
  /\ LET i == Top(c)
     IN  /\ inv' = [inv EXCEPT ![i] =
                      [@ EXCEPT !.ops = Append(@, Op("release", TRUE)),
                                !.out = inv[i].res,
                                !.pc = "done"]]
         /\ pending' = [pending EXCEPT ![i] = {}]
  /\ stack' = Pop(c)
  /\ UNCHANGED <<cacheVars, repoVars>>
  /\ UNCHANGED <<dataSourceStore, alsStore, committed>>

\* A wrapper that left without reaching finally (pc = "done" straight from
\* connect / startTransaction) never calls release.

----------------------------------------------------------------------------
\* CacheStorage (part_006 1-43) over cache-manager's memory store.

\* Faulty variant: the store ignores the ttl it is given.
Stale_never(e) == FALSE

\* The memory store treats an entry as expired once more than ttl
\* milliseconds have passed since it was stored.
Stale(e) == e.ttl # 0 /\ now - e.start > e.ttl

\* cache.get(key) of the memory store: the stored wrapper, or undefined when
\* the key is absent or its entry has expired.
StoreGet(key) ==
  IF cache[key].present /\ ~Stale(cache[key]) THEN cache[key] ELSE NoEntry

\* Line 40: options.ttl ?? CacheStorage.DEFAULT_TTL.
TtlOf(ttl) == IF ttl = NoTtl THEN DEFAULT_TTL ELSE ttl

\* Faulty variant: the once flag is never acted on.
MustDelete_never(wrapper) == FALSE

\* Line 18: wrapper?.once === true.
MustDelete(wrapper) == wrapper.present /\ wrapper.once = "true"

\* Line 21: wrapper?.value.
ValueOf(wrapper) == IF wrapper.present THEN wrapper.value ELSE None

\* Chains with a get on `key` in flight.
Getting(key) == {d \in Chains : cget[d].pc = "get" /\ cget[d].key = key}

\* Lines 24-42: CacheStorage.set(key, value, {ttl, once}) stores the wrapper
\* { value, once } under key for ttl milliseconds, replacing any entry.
CacheSetCore(c, key, value, once, ttl) ==
  /\ cget[c].pc = "idle"
  /\ LET e == [present |-> TRUE, value |-> value, once |-> once,
               start |-> now, ttl |-> TtlOf(ttl)]
     IN  /\ cache' = [cache EXCEPT ![key] = e]
         /\ lastSet' = [lastSet EXCEPT ![key] = e]
  /\ getLog' = [getLog EXCEPT ![key] = <<>>]
  /\ clean' = [clean EXCEPT ![key] = Getting(key) = {}]
  /\ cget' = [d \in Chains |->
                IF d \in Getting(key) THEN [cget[d] EXCEPT !.cur = FALSE]
                                      ELSE cget[d]]
  /\ now' = now

\* CacheStorage.set called on its own by chain c.
CacheSet(c, key, value, once, ttl) ==
  /\ CacheSetCore(c, key, value, once, ttl)
  /\ UNCHANGED <<txVars, repoVars>>

\* Lines 12-17: CacheStorage.get(key) up to `await cache.get(key)`: the store
\* is read (an expired entry is dropped by the read) and the call suspends.
CacheGetReadCore(c, key) ==
  /\ cget[c].pc = "idle"
  /\ Len(getLog[key]) + Cardinality({d \in Getting(key) : cget[d].cur}) < MaxGets
  /\ cget' = [cget EXCEPT ![c] =
                [pc |-> "get", key |-> key, wrapper |-> StoreGet(key),
                 fresh |-> lastSet[key].present /\ now - lastSet[key].start <= lastSet[key].ttl,
                 cur |-> TRUE]]
  /\ cache' = [cache EXCEPT ![key] = StoreGet(key)]
  /\ clean' = [clean EXCEPT ![key] = clean[key] /\ Getting(key) = {}]
  /\ UNCHANGED <<now, lastSet, getLog>>

\* CacheStorage.get called on its own by chain c.
CacheGetRead(c, key) ==
  /\ CacheGetReadCore(c, key)
  /\ UNCHANGED <<txVars, repoVars>>

\* Lines 18-22: the call resumes: a wrapper with once === true is deleted
\* from the store (cache.del), and wrapper?.value is returned.
CacheGetFinishCore(c) ==
  /\ cget[c].pc = "get"
  /\ LET key == cget[c].key
         wrapper == cget[c].wrapper
     IN  /\ cache' = IF MustDelete(wrapper)
                       THEN [cache EXCEPT ![key] = NoEntry]
                       ELSE cache
         /\ getLog' = IF cget[c].cur
                        THEN [getLog EXCEPT ![key] =
                                Append(@, [val |-> ValueOf(wrapper),
                                           fresh |-> cget[c].fresh])]
                        ELSE getLog
  /\ cget' = [cget EXCEPT ![c] = NoCall]
  /\ UNCHANGED <<now, lastSet, clean>>

\* The get that chain c called on its own returns.
CacheGetFinish(c) ==
  /\ CacheGetFinishCore(c)
  /\ UNCHANGED <<txVars, repoVars>>

\* A millisecond passes.
Tick ==
  /\ now < MaxTime
  /\ now' = now + 1
  /\ UNCHANGED <<cache, cget, lastSet, getLog, clean>>
  /\ UNCHANGED <<txVars, repoVars>>

NextCache ==
  \/ \E c \in Chains, k \in Keys, v \in CacheValues, o \in OnceOptions,
        t \in TtlOptions : CacheSet(c, k, v, o, t)
  \/ \E c \in Chains, k \in Keys : CacheGetRead(c, k)
  \/ \E c \in Chains : CacheGetFinish(c)
  \/ Tick

SpecCache == Init /\ [][NextCache]_vars

----------------------------------------------------------------------------
\* DataSourceStorage (part_006 45-65) and its use by forRoot.

\* Names the registry is asked for: those of Names and one that no forRoot
\* ever registers; handles of initialized data sources.
RegistryNames == Names \cup {"ghost"}
Handles == {"ds1", "ds2", "ds3"}

\* new UnknownConnectionException(connectionName): the message passed to Error.
UnknownConnectionMessage(connectionName) ==
  IF connectionName = DEFAULT_DATASOURCE_NAME
    THEN "Default connection not found"
    ELSE "Unknown connection: " \o connectionName

\* Nothing is registered before the first forRoot.
InitRegistry ==
  /\ dataSourceStore = [n \in RegistryNames |-> None]
  /\ repositories = [n \in Names |-> None]
  /\ InitApp
  /\ InitRest

\* Faulty variant: a name that is already registered keeps its handle.
setDataSource_keepFirst(name, dataSource) ==
  dataSourceStore' =
    IF dataSourceStore[name] = None
      THEN [dataSourceStore EXCEPT ![name] = dataSource]
      ELSE dataSourceStore

\* DataSourceStorage.setDataSource(name, dataSource): Map.set.
setDataSource(name, dataSource) ==
  dataSourceStore' = [dataSourceStore EXCEPT ![name] = dataSource]

\* TypeOrmTransactionModule.forRoot(options): the initialized data source is
\* registered under options.name ?? DEFAULT_DATASOURCE_NAME.
forRoot(optionsName, dataSource) ==
  /\ setDataSource(NameOrDefault(optionsName), dataSource)
  /\ forRootCall' = [called |-> TRUE, optionsName |-> optionsName,
                     dataSource |-> dataSource, before |-> dataSourceStore]
  /\ UNCHANGED <<inv, stack, alsStore, pending, committed>>
  /\ UNCHANGED <<cacheVars, regVars, pageVars, relVars, pkVars, saveVars, interceptVars, timerVars>>
  /\ UNCHANGED <<envVars, repositories>>

\* A call of DataSourceStorage.getDataSource(name); name may be omitted.
GetDataSourceCall(name) ==
  /\ LET n == NameOrDefault(name)
         out == getDataSource(n)
     IN  dsCall' = [called |-> TRUE, name |-> n, held |-> dataSourceStore[n],
                    out |-> out,
                    message |-> IF out.kind = "thr"
                                  THEN UnknownConnectionMessage(n) ELSE None]
  /\ UNCHANGED <<txVars, cacheVars, pageVars, relVars, pkVars, appVars, saveVars, interceptVars, timerVars>>

\* DataSourceStorage.setDataSource(name, dataSource) called while the
\* application runs (a forRoot for a name that may be registered already).
Register(name, dataSource) ==
  /\ setDataSource(name, dataSource)
  /\ UNCHANGED <<inv, stack, alsStore, pending, committed>>
  /\ UNCHANGED <<cacheVars, repoVars>>

\* createProviders(entities, ds), part_002 25-38: the factory of the
\* repository provider runs, once: it looks the data source up and hands it
\* to the TransactionalRepository constructor, which keeps it. For an
\* unregistered name the factory throws and no repository exists.
CreateProviders(ds) ==
  /\ repositories[ds] = None
  /\ getDataSource(ds).kind = "ret"
  /\ repositories' = [repositories EXCEPT ![ds] = getDataSource(ds).val]
  /\ UNCHANGED <<txVars, cacheVars, regVars, pageVars, relVars, pkVars, saveVars, interceptVars, timerVars>>
  /\ UNCHANGED <<envVars, forRootCall>>

NextRegistry ==
  \/ \E n \in Names \cup {None}, h \in Handles : forRoot(n, h)
  \/ \E n \in RegistryNames \cup {None} : GetDataSourceCall(n)

SpecRegistry == InitRegistry /\ [][NextRegistry]_vars

----------------------------------------------------------------------------
\* TransactionalRepository.findWithPagination (transactional.repository.ts
\* 306-330; findAllWithPagination 89-113 is the same body).

RowIds == 1..MaxRows

\* getMany() without skip/take: the matching rows in the query's order.
Rows(t) ==
  CHOOSE q \in [1..Cardinality(t) -> t] :
    \A i, j \in 1..Cardinality(t) : i < j => q[i] < q[j]

\* Faulty variant: the offset is page * limit.
Skip_fromPage(limit, page) == page * limit

\* Line 314: .skip((page - 1) * limit).
Skip(limit, page) == (page - 1) * limit

\* Lines 311-316: .skip(skip).take(take).getMany() over the rows q.
SkipTake(q, skip, take) ==
  [k \in 1..(IF Len(q) - skip < 0 THEN 0
             ELSE IF Len(q) - skip < take THEN Len(q) - skip ELSE take)
     |-> q[skip + k]]

\* Line 325: Math.ceil(count / limit), limit >= 1.
Ceil(count, limit) == (count + limit - 1) \div limit

\* Another request inserts or deletes a matching row.
TableInsert(r) ==
  /\ r \notin table
  /\ table' = table \cup {r}
  /\ pg' = IF pg.pc = "count" THEN [pg EXCEPT !.changed = TRUE] ELSE pg
  /\ pk' = [c \in Chains |->
              IF pk[c].pc # "idle" /\ pk[c].id = r
                THEN [pk[c] EXCEPT !.rowNever = FALSE] ELSE pk[c]]
  /\ UNCHANGED <<txVars, cacheVars, regVars, appVars, saveVars, interceptVars, timerVars, relVars, lastPk, follow>>

TableDelete(r) ==
  /\ r \in table
  /\ table' = table \ {r}
  /\ pg' = IF pg.pc = "count" THEN [pg EXCEPT !.changed = TRUE] ELSE pg
  /\ pk' = [c \in Chains |->
              IF pk[c].pc # "idle" /\ pk[c].id = r
                THEN [pk[c] EXCEPT !.rowAlways = FALSE] ELSE pk[c]]
  /\ UNCHANGED <<txVars, cacheVars, regVars, appVars, saveVars, interceptVars, timerVars, relVars, lastPk, follow>>

\* Lines 311-316: findWithPagination(limit, page, options) is called and its
\* first query, for the page's rows, is answered.
FindWithPaginationData(limit, page) ==
  /\ pg.pc \in {"idle", "done"}
  /\ pg' = [NoPage EXCEPT !.pc = "count", !.limit = limit, !.page = page,
                          !.seen = table,
                          !.data = SkipTake(Rows(table), Skip(limit, page), limit)]
  /\ UNCHANGED <<txVars, cacheVars, regVars, appVars, saveVars, interceptVars, timerVars, relVars, pkVars, table>>

\* Lines 318-329: the second query, getCount(), is answered and the
\* IPagination object is returned.
FindWithPaginationCount ==
  /\ pg.pc = "count"
  /\ LET count == Cardinality(table)
     IN  pg' = [pg EXCEPT !.pc = "done",
                          !.result = [count |-> count,
                                      pageCount |-> Ceil(count, pg.limit),
                                      currentPage |-> pg.page,
                                      limit |-> pg.limit,
                                      data |-> pg.data]]
  /\ UNCHANGED <<txVars, cacheVars, regVars, appVars, saveVars, interceptVars, timerVars, relVars, pkVars, table>>

NextPage ==
  \/ \E r \in RowIds : TableInsert(r)
  \/ \E r \in RowIds : TableDelete(r)
  \/ \E limit \in 1..MaxLimit, page \in 1..MaxPage :
        FindWithPaginationData(limit, page)
  \/ FindWithPaginationCount

SpecPage == Init /\ [][NextPage]_vars

----------------------------------------------------------------------------
\* TransactionalRepository.associate / disassociate (transactional.repository.ts
\* 463-522).

\* Property names of relations, and a name the entity does not declare.
PropertyNames == {"tags", "owner"}
RelationArgs == PropertyNames \cup {"missing"}
Methods == {"associate", "disassociate"}

Relation(propertyName, isManyToMany) ==
  [propertyName |-> propertyName, isManyToMany |-> isManyToMany]

\* metadata.relations of an entity: one relation per relation property.
Metadata ==
  {m \in UNION {[1..n -> [propertyName : PropertyNames, isManyToMany : BOOLEAN]] :
                  n \in 0..MaxRelations} :
     \A i, j \in 1..Len(m) : i # j => m[i].propertyName # m[j].propertyName}

NotManyToManyMessage == "Not a many to many relationship"
RelationNotFoundMessage(relation) ==
  "Relation " \o relation \o " not found in " \o EntityName

\* Faulty variant: the relation's kind is not looked at.
IsManyToMany_unchecked(r) == TRUE

\* Lines 472 / 503: r.isManyToMany.
IsManyToMany(r) == r.isManyToMany

\* Lines 475-479 / 506-510: the call made on the relation.
MutationOf(method) == IF method = "associate" THEN "add" ELSE "remove"

\* Lines 468-469 / 499-500: the method is called; relations and found are set.
AssociateCall(method, relations, relation) ==
  /\ rel.pc \in {"idle", "done"}
  /\ rel' = [NoRel EXCEPT !.pc = "loop", !.method = method,
                          !.relations = relations, !.relation = relation,
                          !.idx = 1]
  /\ UNCHANGED <<txVars, cacheVars, regVars, appVars, saveVars, interceptVars, timerVars, pageVars, pkVars>>

\* Lines 470-481 / 501-512: one iteration of `for (let r of relations)`.
\* A relation of that name which is not many-to-many throws before any call
\* on the relation; otherwise add / remove is awaited and found is set.
AssociateLoop ==
  /\ rel.pc = "loop"
  /\ rel.idx <= Len(rel.relations)
  /\ LET r == rel.relations[rel.idx]
     IN  rel' =
           IF r.propertyName # rel.relation
             THEN [rel EXCEPT !.idx = @ + 1]
             ELSE IF ~IsManyToMany(r)
               THEN [rel EXCEPT !.pc = "done", !.out = Thr(NotManyToManyMessage)]
               ELSE [rel EXCEPT !.idx = @ + 1, !.found = TRUE,
                                !.mutations = Append(@, MutationOf(rel.method))]
  /\ UNCHANGED <<txVars, cacheVars, regVars, appVars, saveVars, interceptVars, timerVars, pageVars, pkVars>>

\* Lines 482-491 / 513-522: after the loop, `if (!found) throw`.
AssociateEnd ==
  /\ rel.pc = "loop"
  /\ rel.idx > Len(rel.relations)
  /\ rel' = [rel EXCEPT !.pc = "done",
                        !.out = IF rel.found
                                  THEN Ret(None)
                                  ELSE Thr(RelationNotFoundMessage(rel.relation))]
  /\ UNCHANGED <<txVars, cacheVars, regVars, appVars, saveVars, interceptVars, timerVars, pageVars, pkVars>>

NextAssociate ==
  \/ \E method \in Methods, relations \in Metadata, relation \in RelationArgs :
        AssociateCall(method, relations, relation)
  \/ AssociateLoop
  \/ AssociateEnd

SpecAssociate == Init /\ [][NextAssociate]_vars

----------------------------------------------------------------------------
\* TransactionalRepository.findOneByPK (transactional.repository.ts 128-157)
\* and EntityExistsPipe (part_005 11-44), over CacheStorage and the table.

\* The entity a query returns for the row with primary key id.
Entity(id) == EntityName \o "#" \o ToString(id)

NotFoundException == "NotFoundException"
\* part_005 line 30: the pipe's default ttl, in milliseconds.
PIPE_DEFAULT_TTL == 5000

\* cacheOptions as passed to findOneByPK or to EntityExistsPipe: absent, or
\* an object whose once / ttl fields may be absent.
NoOptions == [given |-> FALSE, once |-> None, ttl |-> NoTtl]
CacheOptions ==
  {NoOptions,
   [given |-> TRUE, once |-> "false", ttl |-> 1],
   [given |-> TRUE, once |-> None, ttl |-> NoTtl]}

\* Faulty variant: the pipe hands its own cacheOptions on as they are.
PipeOptions_noDefaults(cacheOptions) == cacheOptions

\* part_005 lines 28-31: the options transform passes to findOneByPK:
\* { once: cacheOptions?.once ?? true, ttl: cacheOptions?.ttl ?? 5000 }.
PipeOptions(cacheOptions) ==
  [given |-> TRUE,
   once |-> IF cacheOptions.once = None THEN "true" ELSE cacheOptions.once,
   ttl |-> IF cacheOptions.ttl = NoTtl THEN PIPE_DEFAULT_TTL ELSE cacheOptions.ttl]

\* Lines 139-140: cacheKey = `${entityName}-${id}`.
PkCacheKey(id) == CacheKey(id)

\* Faulty variant: what the cache returned is not looked at.
IsEmpty_always(entity) == TRUE

\* Line 144: `if (!entity)`.
IsEmpty(entity) == entity = None

\* What the caller observes once findOneByPK has returned `entity`: the
\* entity itself, or for transform (part_005 37-40) NotFoundException when
\* the entity is empty and `value` otherwise.
PkCompletion(call, entity) ==
  IF call.pipe
    THEN IF IsEmpty(entity) THEN Thr(NotFoundException) ELSE Ret(ToString(call.id))
    ELSE Ret(entity)

\* Chains with a lookup of `key` in flight.
LookingUp(key) ==
  {d \in Chains : pk[d].pc # "idle" /\ pk[d].key = key}

\* The record of follow after `call` has finished.
Followed(f, call) ==
  IF call.overlap THEN NoFollow
  ELSE IF call.pipe
    THEN IF call.defaults /\ call.out.kind = "ret"
           THEN [NoFollow EXCEPT !.stage = 1, !.validationQueries = call.queries]
           ELSE NoFollow
    ELSE IF f.stage = 1 THEN [f EXCEPT !.stage = 2, !.nextQueries = call.queries]
    ELSE IF f.stage = 2 THEN [f EXCEPT !.stage = 3, !.thenQueries = call.queries]
    ELSE NoFollow

\* The call of chain c returns: `call` is its final record.
Finished(c, call) ==
  /\ pk' = [pk EXCEPT ![c] = NoPk]
  /\ lastPk' = [call EXCEPT !.overlap = FALSE]
  /\ follow' = [follow EXCEPT ![call.key] = Followed(@, call)]

\* Lines 128-142 (part_005 27-31 for the pipe): the call is made, the key is
\* built, CacheStorage.get(cacheKey) reads the store and suspends.
PkBegin(c, isPipe, defaults, id, options) ==
  /\ pk[c].pc = "idle"
  /\ LET key == PkCacheKey(id)
         others == LookingUp(key)
     IN  /\ CacheGetReadCore(c, key)
         /\ pk' = [d \in Chains |->
                     IF d = c
                       THEN [NoPk EXCEPT !.pc = "get", !.pipe = isPipe,
                                         !.defaults = defaults, !.id = id,
                                         !.given = options.given,
                                         !.once = options.once,
                                         !.ttl = options.ttl, !.key = key,
                                         !.cached = ValueOf(StoreGet(key)),
                                         !.overlap = others # {},
                                         !.rowNever = id \notin table,
                                         !.rowAlways = id \in table]
                       ELSE IF d \in others
                         THEN [pk[d] EXCEPT !.overlap = TRUE]
                         ELSE pk[d]]
  /\ lastPk' = NoPk
  /\ UNCHANGED <<txVars, regVars, appVars, saveVars, interceptVars, timerVars, pageVars, relVars, follow>>

\* findOneByPK(id, cacheOptions) called by a route handler or a service.
FindOneByPK(c, id, cacheOptions) ==
  PkBegin(c, FALSE, FALSE, id, cacheOptions)

\* EntityExistsPipe(EntityClass, cacheOptions).transform(value).
PipeTransform(c, value, cacheOptions) ==
  PkBegin(c, TRUE, ~cacheOptions.given, value, PipeOptions(cacheOptions))

\* Lines 142-144 and 156: CacheStorage.get returns (deleting a once entry);
\* an entity is returned at once, an empty answer leads to the query.
PkCacheAnswer(c) ==
  /\ pk[c].pc = "get"
  /\ CacheGetFinishCore(c)
  /\ LET entity == ValueOf(cget[c].wrapper)
         call == [pk[c] EXCEPT !.entity = entity]
     IN  IF IsEmpty(entity)
           THEN /\ pk' = [pk EXCEPT ![c] = [call EXCEPT !.pc = "query"]]
                /\ UNCHANGED <<lastPk, follow>>
           ELSE Finished(c, [call EXCEPT !.pc = "done", !.hit = TRUE,
                                         !.out = PkCompletion(call, entity)])
  /\ UNCHANGED <<txVars, regVars, appVars, saveVars, interceptVars, timerVars, pageVars, relVars>>

\* Lines 145-149 and 156: repository.findOneBy({ [primaryKeyColumn]: id }) is
\* answered; without cacheOptions the entity is returned.
PkQuery(c) ==
  /\ pk[c].pc = "query"
  /\ LET entity == IF pk[c].id \in table THEN Entity(pk[c].id) ELSE None
         call == [pk[c] EXCEPT !.entity = entity, !.queries = @ + 1,
                               !.rowAtQuery = pk[c].id \in table]
     IN  IF call.given
           THEN /\ pk' = [pk EXCEPT ![c] = [call EXCEPT !.pc = "set"]]
                /\ UNCHANGED <<lastPk, follow>>
           ELSE Finished(c, [call EXCEPT !.pc = "done",
                                         !.out = PkCompletion(call, entity)])
  /\ UNCHANGED <<txVars, cacheVars, regVars, appVars, saveVars, interceptVars, timerVars, pageVars, relVars>>

\* Lines 149-156: CacheStorage.set(cacheKey, entity, { once, ttl }) stores
\* what the query returned, a row or none, and the entity is returned.
PkStore(c) ==
  /\ pk[c].pc = "set"
  /\ CacheSetCore(c, pk[c].key, pk[c].entity, pk[c].once, pk[c].ttl)
  /\ Finished(c, [pk[c] EXCEPT !.pc = "done", !.stored = lastSet'[pk[c].key],
                               !.out = PkCompletion(pk[c], pk[c].entity)])
  /\ UNCHANGED <<txVars, regVars, appVars, saveVars, interceptVars, timerVars, pageVars, relVars>>

NextPK ==
  \/ \E c \in Chains, id \in PkIds, o \in CacheOptions : FindOneByPK(c, id, o)
  \/ \E c \in Chains, id \in PkIds, o \in CacheOptions : PipeTransform(c, id, o)
  \/ \E c \in Chains : PkCacheAnswer(c)
  \/ \E c \in Chains : PkQuery(c)
  \/ \E c \in Chains : PkStore(c)
  \/ \E r \in PkIds : TableInsert(r)
  \/ \E r \in PkIds : TableDelete(r)

SpecPK == Init /\ [][NextPK]_vars

----------------------------------------------------------------------------
\* TransactionInterceptor.intercept (transaction.interceptor.ts 22-57).

\* Route handlers, by what next.handle() emits: one value then completion
\* (a handler that returns or resolves), an error (a handler that throws
\* or rejects), and handlers returning a stream that completes empty or
\* emits two values.
Handlers == {"value", "error", "empty", "two"}
HandlerValues == {"v1", "v2"}
HandlerErrors == {"E1", "E2"}
Emits(handler) ==
  CASE handler = "value" -> <<"next", "complete">>
    [] handler = "error" -> <<"error">>
    [] handler = "empty" -> <<"complete">>
    [] handler = "two" -> <<"next", "next", "complete">>

\* Faulty variant: every handler is wrapped.
Intercepted_always(metadata) == TRUE

\* Lines 26-32: `if (!metadata) return next.handle()`.
Intercepted(metadata) == metadata

\* Faulty variant of line 50: the error is replaced.
Rethrown_wrapped(rollbackOk, e) ==
  IF rollbackOk THEN Thr("TransactionError") ELSE Thr(RollbackErr)

\* Lines 48-51: the promise of the async selector rejects with e once
\* rollbackTransaction resolved, with the rollback's error if it rejected.
Rethrown(rollbackOk, e) == IF rollbackOk THEN Thr(e) ELSE Thr(RollbackErr)

IcLog(r, e) == [r EXCEPT !.events = Append(@, e)]

\* finalize (52-54): when the stream has delivered its completion or its
\* error, release() is invoked; nothing waits for it.
IcTerminate(r, last) ==
  [IcLog(r, "release") EXCEPT !.out = Append(@, last), !.pc = "done",
                              !.source = <<>>, !.waiting = 0]

\* After a value was handed on or the source completed: concatMap starts
\* the commit of the next value held back, or completes once the source
\* has and nothing is pending.
IcNext(r) ==
  IF r.waiting > 0
    THEN [IcLog(r, "commitTransaction") EXCEPT !.waiting = @ - 1, !.pc = "commit"]
    ELSE IF r.source = <<>>
      THEN IcTerminate(r, [kind |-> "complete", val |-> None])
      ELSE [r EXCEPT !.pc = "handle"]

\* Lines 26-34: intercept is called for a handler. Without metadata
\* next.handle() is returned as it is; else a query runner is created and
\* connect() awaited.
Intercept(metadata, handler, value, error) ==
  /\ ic.pc \in {"idle", "done"}
  /\ ic' = IF Intercepted(metadata)
             THEN [NoIntercept EXCEPT !.pc = "connect", !.metadata = metadata,
                                      !.handler = handler,
                                      !.value = value, !.error = error,
                                      !.source = Emits(handler),
                                      !.events = <<"connect">>]
             ELSE [NoIntercept EXCEPT !.pc = "plain", !.metadata = metadata,
                                      !.handler = handler,
                                      !.value = value, !.error = error,
                                      !.source = Emits(handler),
                                      !.events = <<"handler">>]
  /\ UNCHANGED <<txVars, cacheVars, regVars, pageVars, relVars, pkVars>>
  /\ UNCHANGED <<appVars, saveVars, timerVars>>

\* The untouched stream of a handler without metadata emits.
IcPlain ==
  /\ ic.pc = "plain"
  /\ LET e == Head(ic.source)
         r == [ic EXCEPT !.source = Tail(@)]
     IN  ic' = CASE e = "next" ->
                      [IcLog(r, "value") EXCEPT !.out = Append(@, Ret(ic.value))]
                 [] e = "error" ->
                      [r EXCEPT !.out = Append(@, Thr(ic.error)),
                                !.pc = "done"]
                 [] e = "complete" ->
                      [r EXCEPT !.out = Append(@, [kind |-> "complete", val |-> None]),
                                !.pc = "done"]
  /\ UNCHANGED <<txVars, cacheVars, regVars, pageVars, relVars, pkVars>>
  /\ UNCHANGED <<appVars, saveVars, timerVars>>

\* Lines 34-35: connect() settles; a rejection rejects intercept's promise.
IcConnect(ok) ==
  /\ ic.pc = "connect"
  /\ ic' = IF ok
             THEN [IcLog(IcLog(ic, "connect:ok"), "startTransaction")
                     EXCEPT !.pc = "start"]
             ELSE [IcLog(ic, "connect:failed")
                     EXCEPT !.pc = "done", !.out = <<Thr(ConnectErr)>>]
  /\ UNCHANGED <<txVars, cacheVars, regVars, pageVars, relVars, pkVars>>
  /\ UNCHANGED <<appVars, saveVars, timerVars>>

\* Lines 35-56: startTransaction() settles; the piped stream is returned
\* and subscribed, which starts the handler.
IcStartTransaction(ok) ==
  /\ ic.pc = "start"
  /\ ic' = IF ok
             THEN [IcLog(IcLog(ic, "startTransaction:ok"), "handler")
                     EXCEPT !.pc = "handle"]
             ELSE [IcLog(ic, "startTransaction:failed")
                     EXCEPT !.pc = "done", !.out = <<Thr(StartErr)>>]
  /\ UNCHANGED <<txVars, cacheVars, regVars, pageVars, relVars, pkVars>>
  /\ UNCHANGED <<appVars, saveVars, timerVars>>

\* next.handle() emits, while no commit is pending or while one is
\* (concatMap holds the value back, lines 43-47). An error goes to
\* catchError, which invokes rollbackTransaction (48-49).
IcSource ==
  /\ ic.pc \in {"handle", "commit"}
  /\ ic.source # <<>>
  /\ LET e == Head(ic.source)
         r == [ic EXCEPT !.source = Tail(@)]
     IN  ic' = CASE e = "next" ->
                      IF ic.pc = "commit"
                        THEN [IcLog(r, "value") EXCEPT !.waiting = @ + 1]
                        ELSE [IcLog(IcLog(r, "value"), "commitTransaction")
                                EXCEPT !.pc = "commit"]
                 [] e = "complete" ->
                      IF ic.pc = "commit" THEN r ELSE IcNext(r)
                 [] e = "error" ->
                      [IcLog(r, "rollbackTransaction")
                         EXCEPT !.caught = ic.error, !.pc = "rollback"]
  /\ UNCHANGED <<txVars, cacheVars, regVars, pageVars, relVars, pkVars>>
  /\ UNCHANGED <<appVars, saveVars, timerVars>>

\* Lines 45-49: commitTransaction() settles: the value is handed on, or
\* the commit's error goes to catchError.
IcCommit(ok) ==
  /\ ic.pc = "commit"
  /\ ic' = IF ok
             THEN IcNext([IcLog(ic, "commitTransaction:ok")
                            EXCEPT !.out = Append(@, Ret(ic.value))])
             ELSE [IcLog(IcLog(ic, "commitTransaction:failed"),
                         "rollbackTransaction")
                     EXCEPT !.caught = CommitErr, !.pc = "rollback"]
  /\ UNCHANGED <<txVars, cacheVars, regVars, pageVars, relVars, pkVars>>
  /\ UNCHANGED <<appVars, saveVars, timerVars>>

\* Lines 49-54: rollbackTransaction() settles, the stream errors, finalize
\* runs.
IcRollback(ok) ==
  /\ ic.pc = "rollback"
  /\ ic' = IcTerminate(
             IcLog(ic, IF ok THEN "rollbackTransaction:ok"
                             ELSE "rollbackTransaction:failed"),
             Rethrown(ok, ic.caught))
  /\ UNCHANGED <<txVars, cacheVars, regVars, pageVars, relVars, pkVars>>
  /\ UNCHANGED <<appVars, saveVars, timerVars>>

NextIntercept ==
  \/ \E metadata \in BOOLEAN, handler \in Handlers,
        value \in HandlerValues, error \in HandlerErrors :
       Intercept(metadata, handler, value, error)
  \/ IcPlain
  \/ \E ok \in BOOLEAN : IcConnect(ok)
  \/ \E ok \in BOOLEAN : IcStartTransaction(ok)
  \/ IcSource
  \/ \E ok \in BOOLEAN : IcCommit(ok)
  \/ \E ok \in BOOLEAN : IcRollback(ok)

SpecIntercept == Init /\ [][NextIntercept]_vars

----------------------------------------------------------------------------
\* findOneByPK and the wrapper together: chain c1 serves one request in a
\* @Transactional() method whose write inserts the row with primary key 1,
\* and looks the row up inside or outside it; chain c2 looks it up outside
\* any transaction. Lookups pass cacheOptions.
WriterChains == {"c1"}
SharedOptions == [given |-> TRUE, once |-> "false", ttl |-> 1]

\* The row as written by invocation w, until w's transaction is committed
\* seen only through w's query runner.
Version(id, w) == Entity(id) \o "@" \o w[1] \o "-" \o ToString(w[2])

\* What repository.findOneBy({ [primaryKeyColumn]: id }) finds through the
\* executor the accessor resolves to in chain c (lines 136, 145): the row
\* written in that executor's open transaction, else the committed row.
FindOneBy(c, id) ==
  LET m == getTypeOrmRepository(c, DEFAULT_DATASOURCE_NAME)
      own == IF m.kind = "qr" THEN pending[m.qr] ELSE {}
  IN  IF own # {} THEN Version(id, CHOOSE w \in own : TRUE)
      ELSE IF committed # {} THEN Version(id, CHOOSE w \in committed : TRUE)
      ELSE IF id \in table THEN Entity(id)
      ELSE None

\* Lines 145-149 and 156 with the query answered through the chain's
\* executor.
PkQueryTx(c) ==
  /\ pk[c].pc = "query"
  /\ LET entity == FindOneBy(c, pk[c].id)
         call == [pk[c] EXCEPT !.entity = entity, !.queries = @ + 1,
                               !.rowAtQuery = entity # None]
     IN  IF call.given
           THEN /\ pk' = [pk EXCEPT ![c] = [call EXCEPT !.pc = "set"]]
                /\ UNCHANGED <<lastPk, follow>>
           ELSE Finished(c, [call EXCEPT !.pc = "done",
                                         !.out = PkCompletion(call, entity)])
  /\ UNCHANGED <<txVars, cacheVars, regVars, appVars, saveVars, interceptVars, timerVars, pageVars, relVars>>

\* A chain awaits its lookup: its wrapper moves on only between lookups.
Awaiting(c) == pk[c].pc # "idle"

NextDirty ==
  \/ \E c \in WriterChains :
       /\ \A i \in InvIds : inv[i].chain # c
       /\ Invoke(c, DEFAULT_DATASOURCE_NAME)
  \/ \E c \in WriterChains, ok \in BOOLEAN : Connect(c, ok)
  \/ \E c \in WriterChains, ok \in BOOLEAN : StartTransaction(c, ok)
  \/ \E c \in WriterChains : ~Awaiting(c) /\ BodyWriteOwn(c)
  \/ \E c \in WriterChains, v \in Values : ~Awaiting(c) /\ BodyReturn(c, v)
  \/ \E c \in WriterChains, e \in BodyErrors : ~Awaiting(c) /\ BodyThrow(c, e)
  \/ \E c \in WriterChains, ok \in BOOLEAN : Commit(c, ok)
  \/ \E c \in WriterChains, ok \in BOOLEAN : Rollback(c, ok)
  \/ \E c \in WriterChains : Release(c)
  \/ \E c \in Chains, id \in PkIds :
       /\ Depth(c) = 0 \/ Running(c)
       /\ FindOneByPK(c, id, SharedOptions)
  \/ \E c \in Chains : PkCacheAnswer(c)
  \/ \E c \in Chains : PkQueryTx(c)
  \/ \E c \in Chains : PkStore(c)

SpecDirty == Init /\ [][NextDirty]_vars

Next ==
  \/ \E c \in Chains, n \in Names : Invoke(c, n)
  \/ \E c \in Chains, ok \in BOOLEAN : Connect(c, ok)
  \/ \E c \in Chains, ok \in BOOLEAN : StartTransaction(c, ok)
  \/ \E c \in Chains : BodyWriteOwn(c)
  \/ \E c \in Chains, v \in Values : BodyReturn(c, v)
  \/ \E c \in Chains, e \in BodyErrors : BodyThrow(c, e)
  \/ \E c \in Chains, ok \in BOOLEAN : Commit(c, ok)
  \/ \E c \in Chains, ok \in BOOLEAN : Rollback(c, ok)
  \/ \E c \in Chains : Release(c)

Spec == Init /\ [][Next]_vars

----------------------------------------------------------------------------
\* TransactionalRepository.save (transactional.repository.ts 381-395; the
\* older save / saveMany, 169-185, have the same first statement).

\* Faulty variant: the options are handed on as they were given.
NormalizedSaveOptions_asGiven(saveOptions) == saveOptions

\* Lines 385-389: absent options become { transaction: false }; given
\* options get transaction = false and keep their other fields.
NormalizedSaveOptions(saveOptions) ==
  IF ~saveOptions.given
    THEN [given |-> TRUE, transaction |-> "false", reload |-> None]
    ELSE [saveOptions EXCEPT !.transaction = "false"]

\* The underlying Repository.save wraps the persistence in a transaction of
\* its own unless it is told transaction: false.
OpensOwnTransaction(options) == options.transaction # "false"

\* save(entity, saveOptions) called in chain c, at top level or from a
\* running unit of work, on the repository of the default connection; both
\* branches of line 390 make the same call.
Save(c, isArray, saveOptions) ==
  /\ Depth(c) = 0 \/ Running(c)
  /\ LET passed == NormalizedSaveOptions(saveOptions)
     IN  sv' = [called |-> TRUE, array |-> isArray, given |-> saveOptions,
                passed |-> passed,
                manager |-> getTypeOrmRepository(c, DEFAULT_DATASOURCE_NAME),
                ownTransaction |-> OpensOwnTransaction(passed)]
  /\ UNCHANGED <<txVars, cacheVars, regVars, pageVars, relVars, pkVars, appVars>>
  /\ UNCHANGED <<timerVars, interceptVars>>

NextSave ==
  \/ \E c \in {"c1"}, isArray \in BOOLEAN, o \in SaveOptionsInputs :
       Save(c, isArray, o)
  \/ \E c \in {"c1"} : Invoke(c, DEFAULT_DATASOURCE_NAME)
  \/ \E c \in {"c1"}, ok \in BOOLEAN : Connect(c, ok)
  \/ \E c \in {"c1"}, ok \in BOOLEAN : StartTransaction(c, ok)
  \/ \E c \in {"c1"}, v \in Values : BodyReturn(c, v)
  \/ \E c \in {"c1"}, e \in BodyErrors : BodyThrow(c, e)
  \/ \E c \in {"c1"}, ok \in BOOLEAN : Commit(c, ok)
  \/ \E c \in {"c1"}, ok \in BOOLEAN : Rollback(c, ok)
  \/ \E c \in {"c1"} : Release(c)

SpecSave == Init /\ [][NextSave]_vars

----------------------------------------------------------------------------
\* Callbacks that a unit of work schedules and does not await (setTimeout,
\* a promise left floating). AsyncLocalStorage gives a callback the store
\* that was current when it was scheduled, whenever it runs.

LiveChains == {"c1"}

\* getTypeOrmRepository evaluated where als.getStore() is `store`
\* (transactional.repository.ts 275-283).
getTypeOrmRepositoryIn(store, connection) ==
  IF store.defined /\ store.map[connection] # NoExec
    THEN store.map[connection]
    ELSE DsManager(repositories[connection])

\* The running unit of work of chain c schedules a callback and goes on.
Schedule(c) ==
  /\ Running(c)
  /\ timers[Top(c)] = NoStore
  /\ timers' = [timers EXCEPT ![Top(c)] = getStore(c)]
  /\ UNCHANGED <<txVars, cacheVars, regVars, pageVars, relVars, pkVars>>
  /\ UNCHANGED <<appVars, saveVars, interceptVars, late>>

\* The callback scheduled by invocation i runs, now or after the wrapper has
\* finished, and uses the accessor of the wrapper's connection.
RunCallback(i) ==
  /\ timers[i] # NoStore
  /\ LET m == getTypeOrmRepositoryIn(timers[i], inv[i].conn)
     IN  late' = [ran |-> TRUE, by |-> i, manager |-> m,
                  ops |-> IF m.kind = "qr" THEN inv[m.qr].ops ELSE <<>>]
  /\ timers' = [timers EXCEPT ![i] = NoStore]
  /\ UNCHANGED <<txVars, cacheVars, regVars, pageVars, relVars, pkVars>>
  /\ UNCHANGED <<appVars, saveVars, interceptVars>>

\* A chain starts its next request only when no callback of its previous
\* one is pending.
NextTimers ==
  \/ \E c \in LiveChains, n \in Names :
       Invoke(c, n) /\ \A i \in Forgotten(c) : timers[i] = NoStore
  \/ \E c \in LiveChains : Schedule(c)
  \/ \E i \in InvIds : RunCallback(i)
  \/ \E c \in LiveChains, ok \in BOOLEAN : Connect(c, ok)
  \/ \E c \in LiveChains, ok \in BOOLEAN : StartTransaction(c, ok)
  \/ \E c \in LiveChains, v \in Values : BodyReturn(c, v)
  \/ \E c \in LiveChains, e \in BodyErrors : BodyThrow(c, e)
  \/ \E c \in LiveChains, ok \in BOOLEAN : Commit(c, ok)
  \/ \E c \in LiveChains, ok \in BOOLEAN : Rollback(c, ok)
  \/ \E c \in LiveChains : Release(c)

SpecTimers == Init /\ [][NextTimers]_vars

----------------------------------------------------------------------------
\* Progress of the wrapper. The steps of one request chain, with the
\* promises the wrapper awaits settling sooner or later: connect,
\* startTransaction, commitTransaction, rollbackTransaction and release
\* resolve or reject, and a unit of work that is running returns or throws.
\* Nothing obliges a chain to make a call.
BodyEnds(c) ==
  \/ \E v \in Values : BodyReturn(c, v)
  \/ \E e \in BodyErrors : BodyThrow(c, e)

Settles(c) ==
  \/ \E ok \in BOOLEAN : Connect(c, ok)
  \/ \E ok \in BOOLEAN : StartTransaction(c, ok)
  \/ \E ok \in BOOLEAN : Commit(c, ok)
  \/ \E ok \in BOOLEAN : Rollback(c, ok)
  \/ Release(c)

NextLive ==
  \/ \E c \in LiveChains, n \in Names : Invoke(c, n)
  \/ \E c \in LiveChains : BodyEnds(c)
  \/ \E c \in LiveChains : Settles(c)

Fairness ==
  \A c \in LiveChains : WF_vars(BodyEnds(c)) /\ WF_vars(Settles(c))

SpecLive == Init /\ [][NextLive]_vars /\ Fairness

----------------------------------------------------------------------------
\* The environment switch: one request chain calls the method decorated
\* with @Transactional() and transaction(cb), while NODE_ENV may be set,
\* changed or deleted before and after the class is defined.
EnvChains == {"c1"}
EnvNames == {DEFAULT_DATASOURCE_NAME}

\* forRoot has run for every name; no class has been defined yet.
InitEnv ==
  /\ dataSourceStore = [n \in Names |-> n]
  /\ repositories = [n \in Names |-> n]
  /\ NODE_ENV \in EnvValues \cup {None}
  /\ descriptor = [n \in Names |-> Undecorated]
  /\ InitRest

NextEnv ==
  \/ \E value \in EnvValues \cup {None} : SetEnv(value)
  \/ \E n \in EnvNames : Decorate(n)
  \/ \E c \in EnvChains, n \in EnvNames : Invoke(c, n)
  \/ \E c \in EnvChains, n \in EnvNames : InvokeOriginal(c, n)
  \/ \E c \in EnvChains, n \in EnvNames : Transaction(c, n)
  \/ \E c \in EnvChains, v \in Values : OriginalReturn(c, v)
  \/ \E c \in EnvChains, e \in BodyErrors : OriginalThrow(c, e)
  \/ \E c \in EnvChains, ok \in BOOLEAN : Connect(c, ok)
  \/ \E c \in EnvChains, ok \in BOOLEAN : StartTransaction(c, ok)
  \/ \E c \in EnvChains, v \in Values : BodyReturn(c, v)
  \/ \E c \in EnvChains, e \in BodyErrors : BodyThrow(c, e)
  \/ \E c \in EnvChains, ok \in BOOLEAN : Commit(c, ok)
  \/ \E c \in EnvChains, ok \in BOOLEAN : Rollback(c, ok)
  \/ \E c \in EnvChains : Release(c)

SpecEnv == InitEnv /\ [][NextEnv]_vars

----------------------------------------------------------------------------
\* The registry while the application runs: the default name is
\* registered, and registered again, its repository is built, and one
\* request chain calls @Transactional methods for that name and for a name
\* that is not registered.
RebindHandles == {"ds1", "ds2"}

NextRebind ==
  \/ \E n \in EnvNames, h \in RebindHandles : Register(n, h)
  \/ \E n \in EnvNames : CreateProviders(n)
  \/ \E c \in EnvChains, n \in Names : Invoke(c, n)
  \/ \E c \in EnvChains, ok \in BOOLEAN : Connect(c, ok)
  \/ \E c \in EnvChains, ok \in BOOLEAN : StartTransaction(c, ok)
  \/ \E c \in EnvChains : BodyWriteOwn(c)
  \/ \E c \in EnvChains, v \in Values : BodyReturn(c, v)
  \/ \E c \in EnvChains, e \in BodyErrors : BodyThrow(c, e)
  \/ \E c \in EnvChains, ok \in BOOLEAN : Commit(c, ok)
  \/ \E c \in EnvChains, ok \in BOOLEAN : Rollback(c, ok)
  \/ \E c \in EnvChains : Release(c)

SpecRebind == InitRegistry /\ [][NextRebind]_vars

----------------------------------------------------------------------------
\* Reading an invocation's record.
Ops(i) == inv[i].ops
Count(i, name) == Cardinality({k \in 1..Len(Ops(i)) : Ops(i)[k].op = name})
Has(i, name) == \E k \in 1..Len(Ops(i)) : Ops(i)[k].op = name
HasOk(i, name, ok) == \E k \in 1..Len(Ops(i)) : Ops(i)[k] = Op(name, ok)
Before(i, a, b) ==
  \A k, l \in 1..Len(Ops(i)) : Ops(i)[k].op = a /\ Ops(i)[l].op = b => k < l
\* begin = connect then startTransaction, both resolved.
Began(i) ==
  /\ Len(Ops(i)) >= 2
  /\ Ops(i)[1] = Op("connect", TRUE)
  /\ Ops(i)[2] = Op("startTransaction", TRUE)
Done(i) == inv[i].pc = "done"
\* i was called from the unit of work of an invocation for the same name.
NestedSameName(i) ==
  /\ inv[i].pc # "idle"
  /\ inv[i].parent # NoInv
  /\ inv[inv[i].parent].conn = inv[i].conn
\* A query runner was created for invocation i.
HasRunner(i) ==
  /\ inv[i].pc # "idle"
  /\ inv[i].via # "original"
  /\ inv[i].out # Thr(UnknownConnectionException)
\* The store the caller of invocation i runs in: the one bound by the unit
\* of work the call was made from, none for a call made at top level.
CallerStore(i) ==
  IF inv[i].parent = NoInv
    THEN NoStore
    ELSE NewStore(inv[inv[i].parent].conn, inv[i].parent)
\* The test switch is on: NODE_ENV is TEST in some letter case.
TestSwitchOn(env) == env \in {"test", "TEST"}
\* Invocation i is a call of a method decorated with @Transactional.
Decorated(i) == inv[i].via \in {"Transactional", "original"}
\* connect or startTransaction rejected.
BeginFailed(i) ==
  HasOk(i, "connect", FALSE) \/ HasOk(i, "startTransaction", FALSE)

\* C1. Isolation: in every state an accessor (getTypeOrmRepository) or
\* getEntityManager evaluated in chain c resolves either to a data source's
\* own executor or to the executor of a query runner of an invocation of
\* chain c itself; a chain with no wrapped invocation in flight resolves to
\* the data source's executor; and every write that sits in a query runner's
\* open transaction was issued by the chain that owns that runner.
C1_Isolation ==
  /\ \A c \in Chains, n \in Names :
       \A m \in {getTypeOrmRepository(c, n), getEntityManager(c, n)} :
         /\ m.kind \in {"qr", "ds"}
         /\ m.kind = "qr" => inv[m.qr].chain = c /\ inv[m.qr].pc = "run"
         /\ Depth(c) = 0 => m = DsManager(dataSourceStore[n])
  /\ \A q \in InvIds : \A w \in pending[q] : inv[w].chain = inv[q].chain

\* Two chains are inside units of work for the same connection name at the
\* same time, each with a write in its own open transaction.
C1_Witness ==
  \E c, d \in Chains :
    /\ c # d /\ Running(c) /\ Running(d)
    /\ inv[Top(c)].conn = inv[Top(d)].conn
    /\ Top(c) \in pending[Top(c)] /\ Top(d) \in pending[Top(d)]

\* C2 as stated: on no query runner are commitTransaction and
\* rollbackTransaction both invoked, and each is invoked at most once.
C2_CommitRollbackExclusive ==
  \A i \in InvIds :
    /\ Count(i, "commitTransaction") <= 1
    /\ Count(i, "rollbackTransaction") <= 1
    /\ ~(Has(i, "commitTransaction") /\ Has(i, "rollbackTransaction"))

\* C2 amended: commitTransaction and rollbackTransaction are each invoked at
\* most once on a query runner; both are invoked only when the commit threw,
\* and then the rollback follows the failed commit. A commit that resolved is
\* never accompanied by a rollback.
C2_CommitRollbackAtMostOnce ==
  \A i \in InvIds :
    /\ Count(i, "commitTransaction") <= 1
    /\ Count(i, "rollbackTransaction") <= 1
    /\ Has(i, "commitTransaction") /\ Has(i, "rollbackTransaction")
         => /\ HasOk(i, "commitTransaction", FALSE)
            /\ Before(i, "commitTransaction", "rollbackTransaction")

\* A finished invocation whose commit threw and whose rollback then ran.
C2_Witness ==
  \E i \in InvIds :
    /\ Done(i)
    /\ HasOk(i, "commitTransaction", FALSE)
    /\ Has(i, "rollbackTransaction")

\* C3. For every invocation whose begin succeeded: release is invoked at most
\* once, nothing is invoked on the query runner after it, and the invocation
\* has not finished (its caller has observed nothing) unless release was
\* invoked, whether the unit of work returned, threw, or commit threw.
C3_ReleaseOnceAndLast ==
  \A i \in InvIds :
    Began(i) =>
      /\ Count(i, "release") <= 1
      /\ Has(i, "release") => Ops(i)[Len(Ops(i))].op = "release"
      /\ Done(i) \/ inv[i].out # NoOutcome => Count(i, "release") = 1

\* A finished invocation that went through a failed commit and a failed
\* rollback, and a finished one whose unit of work threw, and one that
\* committed.
C3_Witness ==
  /\ \E i \in InvIds :
       /\ Done(i) /\ Began(i)
       /\ HasOk(i, "commitTransaction", FALSE)
       /\ HasOk(i, "rollbackTransaction", FALSE)
       /\ Has(i, "release")
  /\ \E i \in InvIds :
       Done(i) /\ Began(i) /\ inv[i].work.kind = "thr" /\ Has(i, "release")

\* C4. If the unit of work threw E and rollback resolved, the query runner
\* saw exactly connect, startTransaction, rollbackTransaction, release (no
\* commit) and the caller observed E itself; and commit is never invoked
\* for a unit of work that threw.
C4_WorkErrorRethrown ==
  \A i \in InvIds :
    /\ inv[i].work.kind = "thr" => ~Has(i, "commitTransaction")
    /\ Done(i) /\ inv[i].work.kind = "thr" /\ HasOk(i, "rollbackTransaction", TRUE)
         => /\ Ops(i) = <<Op("connect", TRUE), Op("startTransaction", TRUE),
                          Op("rollbackTransaction", TRUE), Op("release", TRUE)>>
            /\ inv[i].out = inv[i].work

\* A finished invocation whose unit of work threw and whose rollback resolved.
C4_Witness ==
  \E i \in InvIds :
    /\ Done(i) /\ inv[i].work = Thr("E1")
    /\ HasOk(i, "rollbackTransaction", TRUE)

\* C5 as stated: when the unit of work or commit failed with E and the
\* rollback then failed with R, the caller observes E.
C5_OriginalErrorWins ==
  \A i \in InvIds :
    Done(i) /\ inv[i].caught # None /\ HasOk(i, "rollbackTransaction", FALSE)
      => inv[i].out = Thr(inv[i].caught)

\* C6 as stated: an invocation made from the unit of work of an invocation
\* for the same connection name creates no query runner and begins no
\* transaction, and accessors in its unit of work resolve to the outer
\* runner's executor.
C6_InnerJoinsOuter ==
  \A i \in InvIds :
    NestedSameName(i) =>
      /\ ~HasRunner(i)
      /\ ~Has(i, "startTransaction")
      /\ inv[i].pc = "run" =>
           getTypeOrmRepository(inv[i].chain, inv[i].conn) = QrManager(inv[i].parent)

\* C7 as stated: a write issued through the accessor for N by an inner call
\* for N that returned successfully is not durable once the outer unit of
\* work for N has thrown and the outer invocation has finished; and when the
\* outer invocation has returned, the inner write is durable and the only
\* commit was the outer one.
C7_InnerRolledBackWithOuter ==
  \A i \in InvIds :
    NestedSameName(i) /\ inv[i].out.kind = "ret" /\ inv[i].wrote = inv[i].conn
      => /\ Done(inv[i].parent) /\ inv[inv[i].parent].work.kind = "thr"
              => i \notin committed
         /\ inv[inv[i].parent].out.kind = "ret"
              => i \in committed /\ ~Has(i, "commitTransaction")

\* C8. commit is invoked only after the unit of work has returned; a caller
\* that receives a value receives the unit of work's value, after connect,
\* startTransaction, a commit that resolved, and release, in that order; and
\* a finished invocation whose commit resolved delivered that value.
C8_ResultAfterCommit ==
  \A i \in InvIds :
    /\ Has(i, "commitTransaction") => inv[i].work.kind = "ret"
    /\ inv[i].out.kind = "ret"
         => /\ inv[i].work.kind = "ret"
            /\ inv[i].out = inv[i].work
            /\ Ops(i) = <<Op("connect", TRUE), Op("startTransaction", TRUE),
                          Op("commitTransaction", TRUE), Op("release", TRUE)>>
    /\ Done(i) /\ HasOk(i, "commitTransaction", TRUE) => inv[i].out = inv[i].work

\* A caller has received the value of a committed unit of work that wrote.
C8_Witness ==
  \E i \in InvIds :
    /\ Done(i) /\ inv[i].out = Ret("v1")
    /\ inv[i].wrote = inv[i].conn /\ i \in committed

\* C9 as stated: when commit failed after the unit of work returned, rollback
\* is attempted before release and the caller observes the commit error.
C9_CommitErrorRethrown ==
  \A i \in InvIds :
    Done(i) /\ inv[i].work.kind = "ret" /\ HasOk(i, "commitTransaction", FALSE)
      => /\ Has(i, "rollbackTransaction")
         /\ Before(i, "rollbackTransaction", "release")
         /\ inv[i].out = Thr(CommitErr)

\* C10. After set(k, v, {once: true}), as long as k is not set again and no
\* two calls on k overlap, among the gets on k that read before the entry's
\* expiry the first returns v and every later one returns empty.
C10_OnceReadOnce ==
  \A k \in Keys :
    lastSet[k].present /\ lastSet[k].once = "true" /\ clean[k] =>
      \A j \in 1..Len(getLog[k]) :
        getLog[k][j].fresh =>
          getLog[k][j].val = IF j = 1 THEN lastSet[k].value ELSE None

\* Two gets in a row, both before expiry, after a once-set: the first got the
\* value and the second got nothing.
C10_Witness ==
  \E k \in Keys :
    /\ lastSet[k].present /\ lastSet[k].once = "true" /\ clean[k]
    /\ Len(getLog[k]) = 2
    /\ getLog[k][1] = [val |-> lastSet[k].value, fresh |-> TRUE]
    /\ getLog[k][2] = [val |-> None, fresh |-> TRUE]

\* C11. A CacheStorage.get whose read of the store happens after the expiry
\* time of the key's latest entry (the time of its set plus its ttl, the
\* default ttl when none was given) returns empty, whatever the entry's once
\* flag; this holds for the calls in flight and for the calls that returned.
C11_NeverAfterExpiry ==
  /\ \A c \in Chains :
       cget[c].pc = "get" /\ ~cget[c].fresh => ValueOf(cget[c].wrapper) = None
  /\ \A k \in Keys : \A j \in 1..Len(getLog[k]) :
       ~getLog[k][j].fresh => getLog[k][j].val = None

\* set(k, v, {ttl: 1, once: false}); a get within the ttl returned v and a get
\* that read after the expiry returned empty.
C11_Witness ==
  \E k \in Keys :
    /\ lastSet[k].present /\ lastSet[k].once = "false" /\ lastSet[k].ttl = 1
    /\ now - lastSet[k].start >= 2
    /\ Len(getLog[k]) = 2
    /\ getLog[k][1] = [val |-> lastSet[k].value, fresh |-> TRUE]
    /\ getLog[k][2] = [val |-> None, fresh |-> FALSE]

\* C12 as stated: of the gets on k begun since set(k, v, {once: true}),
\* overlapping or not, at most one returns the value.
C12_OneReaderOnly ==
  \A k \in Keys :
    lastSet[k].present /\ lastSet[k].once = "true" =>
      Cardinality({j \in 1..Len(getLog[k]) : getLog[k][j].val # None}) <= 1

\* C13. A getDataSource call for a name under which the registry held nothing
\* throws UnknownConnectionException, with the message 'Default connection
\* not found' for the default name (given or omitted) and 'Unknown
\* connection: <name>' for any other name; a call for a registered name
\* returns the handle registered under it, never an empty handle.
C13_UnknownConnection ==
  dsCall.called =>
    /\ dsCall.out # Ret(None)
    /\ dsCall.held # None => dsCall.out = Ret(dsCall.held)
    /\ dsCall.held = None =>
         /\ dsCall.out = Thr(UnknownConnectionException)
         /\ dsCall.name = "default" => dsCall.message = "Default connection not found"
         /\ dsCall.name = "other" => dsCall.message = "Unknown connection: other"
         /\ dsCall.name = "ghost" => dsCall.message = "Unknown connection: ghost"

\* "other" is registered, and the latest call, for "ghost", threw.
C13_Witness ==
  /\ dataSourceStore["other"] \in Handles
  /\ dsCall.called /\ dsCall.name = "ghost"
  /\ dsCall.out = Thr(UnknownConnectionException)
  /\ dsCall.message = "Unknown connection: ghost"

\* C14. In every state and for every chain c and connection name A, the
\* accessor for A resolves to the executor that c's current store binds
\* under A when there is one, and to A's data source executor otherwise;
\* when none of c's invocations in flight is for A (bindings exist under
\* other names only, or c is outside any wrapped invocation) the accessor
\* resolves to A's data source executor; and a write issued through the
\* accessor for A sits only in the transaction of a query runner for A.
C14_AccessorResolution ==
  /\ \A c \in Chains, n \in Names :
       LET m == getTypeOrmRepository(c, n)
           st == alsStore[c]
           has == st.defined /\ st.map[n] # NoExec
       IN  /\ has => m = st.map[n]
           /\ ~has => m = DsManager(dataSourceStore[n])
           /\ (\A k \in 1..Depth(c) : inv[stack[c][k]].conn # n)
                => m = DsManager(dataSourceStore[n])
  /\ \A q \in InvIds : \A w \in pending[q] : inv[w].wrote = inv[q].conn

\* A chain is inside a unit of work for "other" and has written in its
\* transaction: the accessor for "other" resolves to that runner's executor,
\* the accessor for "default" to the default data source's executor.
C14_Witness ==
  \E c \in Chains :
    /\ Running(c) /\ inv[Top(c)].conn = "other"
    /\ Top(c) \in pending[Top(c)]
    /\ getTypeOrmRepository(c, "other") = QrManager(Top(c))
    /\ getTypeOrmRepository(c, "default") = DsManager(dataSourceStore["default"])

\* C15 as stated: inside a unit of work for B called from a unit of work for
\* a different name A, the accessor for A resolves to the outer runner's
\* executor and the accessor for B to the inner runner's executor.
C15_BindingMerged ==
  \A i \in InvIds :
    /\ inv[i].pc = "run" /\ inv[i].parent # NoInv
    /\ inv[inv[i].parent].conn # inv[i].conn
    /\ Top(inv[i].chain) = i
    => /\ getTypeOrmRepository(inv[i].chain, inv[i].conn) = QrManager(i)
       /\ getTypeOrmRepository(inv[i].chain, inv[inv[i].parent].conn)
            = QrManager(inv[i].parent)

\* C16. A findWithPagination(limit, page) call with limit >= 1 and page >= 1
\* during which the matching rows did not change returns count = the number
\* of matching rows, pageCount = the least integer not below count / limit,
\* currentPage = page, limit = limit, and data = the matching rows at
\* positions (page-1)*limit+1 .. min(page*limit, count) in the query's order,
\* none when the page lies past the last row.
C16_Pagination ==
  pg.pc = "done" /\ ~pg.changed =>
    LET r == pg.result
        n == Cardinality(pg.seen)
        first == (pg.page - 1) * pg.limit + 1
        last == IF pg.page * pg.limit < n THEN pg.page * pg.limit ELSE n
    IN  /\ r.count = n
        /\ r.pageCount * pg.limit >= n /\ (r.pageCount - 1) * pg.limit < n
        /\ r.currentPage = pg.page
        /\ r.limit = pg.limit
        /\ Len(r.data) = (IF last < first THEN 0 ELSE last - first + 1)
        /\ \A k \in 1..Len(r.data) :
             /\ r.data[k] \in pg.seen
             /\ Cardinality({x \in pg.seen : x < r.data[k]}) = first + k - 2

\* Four matching rows, limit 3: page 2 returned count 4, pageCount 2 and the
\* fourth row alone.
C16_Witness ==
  /\ pg.pc = "done" /\ ~pg.changed
  /\ pg.seen = {1, 2, 3, 4} /\ pg.limit = 3 /\ pg.page = 2
  /\ pg.result = [count |-> 4, pageCount |-> 2, currentPage |-> 2, limit |-> 3,
                   data |-> <<4>>]

C19_NotFoundWhenNoRow ==
  LET k == lastPk
  IN  k.pc = "done" /\ k.pipe =>
        /\ k.rowNever => k.out = Thr(NotFoundException)
        /\ k.rowAlways => k.out = Ret(ToString(k.id))
        /\ k.defaults => k.once = "true" /\ k.ttl = 5000

C24_BindingRestored ==
  /\ \A c \in Chains :
       /\ Depth(c) = 0 => alsStore[c] = NoStore
       /\ Running(c) => alsStore[c] = NewStore(inv[Top(c)].conn, Top(c))
       /\ Depth(c) > 0 /\ ~Running(c) => alsStore[c] = CallerStore(Top(c))
  /\ \A i \in InvIds :
       inv[i].pc # "run" =>
         \A c \in Chains, n \in Names :
           /\ getTypeOrmRepository(c, n) # QrManager(i)
           /\ getEntityManager(c, n) # QrManager(i)

\* A nested invocation has finished with the error of its unit of work and
\* its caller's unit of work runs on, in the store the caller bound.
C24_Witness ==
  \E i \in InvIds :
    /\ Done(i) /\ inv[i].work.kind = "thr" /\ inv[i].parent # NoInv
    /\ Has(i, "release")
    /\ Running(inv[i].chain) /\ Top(inv[i].chain) = inv[i].parent
    /\ alsStore[inv[i].chain] = CallerStore(i)
    /\ alsStore[inv[i].chain] # NoStore

\* C27. An invocation whose connect or startTransaction rejected has
\* finished: its unit of work never ran (no completion, no write), no
\* chain's store binds its query runner's executor, neither
\* commitTransaction nor rollbackTransaction was invoked on its runner, and
\* its caller observed the error of the begin step that rejected.
C27_BeginFailure ==
  \A i \in InvIds :
    BeginFailed(i) =>
      /\ Done(i)
      /\ inv[i].work = NoOutcome /\ inv[i].wrote = None
      /\ \A c \in Chains, n \in Names : alsStore[c].map[n] # QrManager(i)
      /\ ~Has(i, "commitTransaction") /\ ~Has(i, "rollbackTransaction")
      /\ inv[i].out = IF HasOk(i, "connect", FALSE)
                        THEN Thr(ConnectErr) ELSE Thr(StartErr)

\* One invocation ended by a rejected connect, another by a rejected
\* startTransaction after connect resolved.
C27_Witness ==
  /\ \E i \in InvIds : Done(i) /\ Ops(i) = <<Op("connect", FALSE)>>
  /\ \E j \in InvIds :
       /\ Done(j)
       /\ Ops(j) = <<Op("connect", TRUE), Op("startTransaction", FALSE)>>

\* C28. Once rollbackTransaction has rejected the wrapper is in or past its
\* finally block: release is invoked, exactly once by the time the
\* invocation has finished, after the rollback and as the last call on the
\* query runner.
C28_ReleaseAfterFailedRollback ==
  \A i \in InvIds :
    HasOk(i, "rollbackTransaction", FALSE) =>
      /\ inv[i].pc \in {"release", "done"}
      /\ Count(i, "release") <= 1
      /\ Before(i, "rollbackTransaction", "release")
      /\ Done(i) =>
           /\ Count(i, "release") = 1
           /\ Ops(i)[Len(Ops(i))] = Op("release", TRUE)

\* A unit of work threw, rollbackTransaction rejected, and the invocation
\* has finished with release as its last call.
C28_Witness ==
  \E i \in InvIds :
    /\ Done(i) /\ inv[i].work.kind = "thr"
    /\ HasOk(i, "rollbackTransaction", FALSE)
    /\ Ops(i)[Len(Ops(i))] = Op("release", TRUE)

\* C30. The registry holds one value per name. After the latest forRoot
\* call, made with options.name = o and data source d: the name o, or the
\* reserved default name when o was not given, holds d whatever it held
\* before, and getDataSource of that name returns d; every other name holds
\* what it held before the call (so the default name is touched only when no
\* name or the default name itself was given). getDataSource calls change
\* nothing.
C30_LastWriteWins ==
  forRootCall.called =>
    LET o == forRootCall.optionsName
        target == IF o = None THEN "default" ELSE o
    IN  /\ DOMAIN dataSourceStore = RegistryNames
        /\ dataSourceStore[target] = forRootCall.dataSource
        /\ getDataSource(target) = Ret(forRootCall.dataSource)
        /\ \A n \in RegistryNames \ {target} :
             dataSourceStore[n] = forRootCall.before[n]
        /\ o = None => dataSourceStore["default"] = forRootCall.dataSource
        /\ o = "other" =>
             dataSourceStore["default"] = forRootCall.before["default"]

\* A name was registered again with a different handle while the other
\* name kept its own, and a forRoot without a name replaced the handle of
\* the default name.
C30_Witness ==
  /\ forRootCall.called /\ forRootCall.optionsName = None
  /\ forRootCall.before["default"] \in Handles
  /\ forRootCall.before["default"] # forRootCall.dataSource
  /\ forRootCall.before["other"] \in Handles
  /\ dataSourceStore["other"] = forRootCall.before["other"]
  /\ dataSourceStore["default"] = forRootCall.dataSource

\* C25. A findOneByPK(id) call made without cacheOptions is never answered
\* from the cache (so it takes no entry out of it, a once entry included),
\* stores nothing in the cache, and has sent exactly one database query
\* when it returns.
C25_NoCacheWithoutOptions ==
  \A call \in {lastPk} \cup {pk[c] : c \in Chains} :
    call.pc # "idle" /\ ~call.pipe /\ ~call.given =>
      /\ ~call.hit
      /\ call.stored = NoEntry
      /\ call.pc = "done" => call.queries = 1

C22_SameAsTransaction ==
  \A i, j \in InvIds :
    /\ Done(i) /\ Decorated(i)
    /\ Done(j) /\ inv[j].via = "transaction"
    /\ inv[i].conn = inv[j].conn
    /\ inv[i].env = inv[j].env
    /\ inv[i].work = inv[j].work
    /\ \A k \in 1..Len(Ops(i)) : k <= Len(Ops(j)) => Ops(i)[k] = Ops(j)[k]
    => /\ Ops(i) = Ops(j)
       /\ inv[i].out = inv[j].out

\* C26. Whether a call of a @Transactional method opens a scope follows the
\* value NODE_ENV has when the call is made: the wrapping function runs
\* when the switch is off at that time, the method as written when it is on.
C26_ReadAtInvocation ==
  \A i \in InvIds :
    inv[i].pc # "idle" /\ Decorated(i) /\ inv[i].env # None =>
      (TestSwitchOn(inv[i].env) <=> inv[i].via = "original")

\* C23. For every chain and every name N that has an accessor, at every
\* moment, getEntityManager(N) and executeRawQuery({ connection: N }) (also
\* with the connection omitted, for the default name) resolve to the
\* executor the accessor bound to N resolves to, also after N has been
\* registered again with another handle.
C23_StaticLookupsAgree ==
  \A c \in Chains, n \in Names :
    repositories[n] # None =>
      /\ getEntityManager(c, n) = getTypeOrmRepository(c, n)
      /\ executeRawQuery(c, n) = getTypeOrmRepository(c, n)
      /\ n = DEFAULT_DATASOURCE_NAME =>
           executeRawQuery(c, None) = getTypeOrmRepository(c, n)

\* C29. A wrapper invocation for a name the registry does not hold has
\* ended with UnknownConnectionException, and an invocation that ended with
\* it left nothing behind: no query runner was created and nothing was
\* invoked on one (no connect, no startTransaction, no release), the unit of
\* work did not run, the invocation never was in flight and no store binds
\* an executor for it.
C29_UnknownNameBeforeScope ==
  \A i \in InvIds :
    /\ inv[i].pc # "idle"
    /\ \/ dataSourceStore[inv[i].conn] = None
       \/ inv[i].out = Thr(UnknownConnectionException)
    => /\ Done(i) /\ inv[i].out = Thr(UnknownConnectionException)
       /\ ~HasRunner(i) /\ Ops(i) = <<>>
       /\ inv[i].work = NoOutcome /\ inv[i].wrote = None
       /\ \A c \in Chains :
            /\ \A k \in 1..Len(stack[c]) : stack[c][k] # i
            /\ \A n \in Names : alsStore[c].map[n] # QrManager(i)

\* While only the default name is registered, a call for "other", made
\* from a running unit of work, has thrown UnknownConnectionException.
C29_Witness ==
  \E i \in InvIds :
    /\ inv[i].conn = "other" /\ dataSourceStore["other"] = None
    /\ dataSourceStore[DEFAULT_DATASOURCE_NAME] # None
    /\ inv[i].out = Thr(UnknownConnectionException)
    /\ inv[i].parent # NoInv /\ Running(inv[i].chain)

\* C31. An invocation whose connect resolved has not finished (its caller
\* has observed nothing) unless release was invoked on its query runner,
\* also when startTransaction rejected.
C31_AcquiredIsReleased ==
  \A i \in InvIds :
    HasOk(i, "connect", TRUE) /\ (Done(i) \/ inv[i].out # NoOutcome)
      => Has(i, "release")

\* C36. A @Transactional method decorated while NODE_ENV is not set has the
\* wrapping function as descriptor.value (the decorator did not throw), and
\* a call of it made while NODE_ENV is not set runs the wrapper.
C36_UnsetEnvDecorates ==
  /\ \A n \in Names :
       descriptor[n].value # "undecorated" /\ descriptor[n].env = None
         => descriptor[n].value = "wrapper"
  /\ \A i \in InvIds :
       inv[i].pc # "idle" /\ Decorated(i) /\ inv[i].env = None
         /\ descriptor[inv[i].conn].env = None
         => inv[i].via = "Transactional"

\* C35. The underlying save of every TransactionalRepository.save call, for
\* a single entity or an array, with saveOptions absent or given (with
\* transaction true, false or unset), got options with transaction = false
\* and the other fields as given, so it opened no transaction of its own,
\* inside a scope or outside.
C35_SaveNeverOwnTransaction ==
  sv.called =>
    /\ sv.passed.transaction = "false"
    /\ sv.passed.reload = sv.given.reload
    /\ ~sv.ownTransaction

\* An array was saved inside a scope with saveOptions.transaction = true.
C35_Witness ==
  /\ sv.called /\ sv.array
  /\ sv.given.given /\ sv.given.transaction = "true"
  /\ sv.given.reload = "true"
  /\ sv.manager.kind = "qr"

\* C34. Liveness: every invocation whose begin succeeded (its unit of work
\* is running) eventually has finished with release invoked on its query
\* runner and a result or an error delivered to its caller, provided units
\* of work end and connect, startTransaction, commit, rollback and release
\* settle.
C34_EventuallyReleased ==
  \A i \in InvIds :
    (inv[i].pc = "run") ~>
      (Done(i) /\ Has(i, "release") /\ inv[i].out # NoOutcome)

\* An invocation that began, whose commit and rollback both rejected, has
\* finished after release with the rollback error delivered.
C34_Witness ==
  \E i \in InvIds :
    /\ Done(i) /\ Began(i)
    /\ HasOk(i, "commitTransaction", FALSE)
    /\ HasOk(i, "rollbackTransaction", FALSE)
    /\ Ops(i)[Len(Ops(i))] = Op("release", TRUE)
    /\ inv[i].out = Thr(RollbackErr)

\* C32. The accessor used by a callback that a unit of work scheduled and
\* did not await never resolves to the executor of a query runner on which
\* commitTransaction, rollbackTransaction or release has been invoked.
C32_NoReleasedExecutor ==
  late.ran /\ late.manager.kind = "qr" =>
    \A k \in 1..Len(late.ops) :
      late.ops[k].op \notin {"commitTransaction", "rollbackTransaction", "release"}

\* C33. Whenever a findOneByPK call of a chain returns the row as written by
\* an invocation of another chain, that invocation's transaction has been
\* committed: no chain is handed a row that another chain wrote in a
\* transaction still open, or rolled back.
C33_NoUncommittedAcrossChains ==
  [][\A c \in Chains :
       pk[c].pc # "idle" /\ pk'[c].pc = "idle" =>
         \A w \in InvIds, id \in PkIds :
           lastPk'.out = Ret(Version(id, w)) /\ inv[w].chain # c
             => w \in committed]_vars

\* Query-runner calls and stream events of the intercept call on record.
IcCount(e) == Cardinality({k \in 1..Len(ic.events) : ic.events[k] = e})
IcHas(e) == IcCount(e) > 0
IcBefore(a, b) ==
  \E j, k \in 1..Len(ic.events) :
    j < k /\ ic.events[j] = a /\ ic.events[k] = b
IcSettlings ==
  {"commitTransaction:ok", "commitTransaction:failed",
   "rollbackTransaction:ok", "rollbackTransaction:failed"}
IcComplete == [kind |-> "complete", val |-> None]

============================================================================
